---- MODULE Spec2Model ----
(***************************************************************************)
(* Model of the schedule_app client: the availability tally of EventPage,  *)
(* and the event cache of AppContext in front of the remote store.         *)
(*                                                                         *)
(*   SpecTally     the tally engine (summary / bestDateIds of EventPage)   *)
(*                 as a function of the rendered event, over all events    *)
(*                 within the bounds.                                      *)
(*   SpecTeamSync  the tally engine on the event "Team Sync".              *)
(*   Spec          the AppContext operations (fetchEvent, getEvent,        *)
(*                 addParticipantResponse) interleaved with the remote     *)
(*                 store.                                                  *)
(*   SpecWrites    the four mutating operations of AppContext and          *)
(*                 fetchEvent, on a store that holds a response.           *)
(*   SpecLink      the address functions: getShareableUrl, the URL update, *)
(*                 the hash parse, shortenUrl.                             *)
(*   SpecRoute     the pages (Header, HomePage, CreateEventPage, EventPage,*)
(*                 ResponsePage) driving the provider and the operations.  *)
(*   SpecEdit      a participant editing a response, from the moment       *)
(*                 EventPage, showing the loaded event e1, is refreshed.   *)
(***************************************************************************)
EXTENDS Integers, Sequences, FiniteSets, TLC

VARIABLES
    event,        \* EventPage: the event being rendered (getEvent(currentEventId)) or NoEvent
    summary,      \* EventPage: useMemo summary, recomputed when event changes
    bestDateIds,  \* EventPage: useMemo bestDateIds, recomputed when summary/event change
    events,       \* AppProvider: the cache, useState<ScheduleEvent[]>([])
    isLoading,    \* AppProvider: useState(false)
    error,        \* AppProvider: useState<string | null>(null)
    db,           \* the remote store: its four tables and its clock
    procs,        \* the calls in progress, in the order they were started
    nOps,         \* the number of operations started so far
    fetchSeq,     \* the number of fetchEvent calls so far
    lastFetched,  \* history: per id, the event of the last successful fetch to complete
    newest,       \* history: per id, the event of the latest-started successful fetch
    returned,     \* history: what the last fetchEvent to return returned
    settled,      \* history: how the last mutating operation settled
    location,     \* window.location: the base address (origin + pathname) and the hash
    mounted,      \* AppProvider: its mount effects have run
    currentEventId,     \* AppProvider: useState<string | null>(null)
    currentView,        \* AppProvider: useState<AppView>('home')
    editingResponseId,  \* AppProvider: useState<string | null>(null)
    isSubmitting,       \* ResponsePage: useState(false)
    isCreating,         \* CreateEventPage: useState(false)
    link          \* the link functions: the arguments of a call and its results

tallyVars == <<event, summary, bestDateIds>>

appVars == <<events, isLoading, error, db, procs, nOps, fetchSeq, lastFetched, newest,
             returned, settled>>

routeVars == <<location, mounted, currentEventId, currentView, editingResponseId,
               isSubmitting, isCreating>>

vars == <<event, summary, bestDateIds, events, isLoading, error, db, procs, nOps,
          fetchSeq, lastFetched, newest, returned, settled, location, mounted,
          currentEventId, currentView, editingResponseId, isSubmitting, isCreating,
          link>>

(***************************************************************************)
(* Values.                                                                 *)
(***************************************************************************)

\* JavaScript undefined: what Array.find returns when nothing matches (a record,
\* so that it compares with event records).
NoEvent == [undefined |-> TRUE]

\* JavaScript null.
Null == "null"

\* types/index.ts: Availability = 'available' | 'maybe' | 'unavailable' | null
Availability == {"available", "maybe", "unavailable", Null}

(***************************************************************************)
(* Bounds of the tally specification.                                      *)
(***************************************************************************)

\* Most participants an event of the tally specification holds.
MaxParticipants == 2

\* Keys a response map may hold; a key that is no candidate of the event is an
\* orphaned reference.
TallyKeys == {"A", "B"}

\* The candidate lists of the events of the tally specification.
TallyCandidateLists ==
    { <<>>,
      << [id |-> "A", datetime |-> "Mon 10am"] >>,
      << [id |-> "A", datetime |-> "Mon 10am"], [id |-> "B", datetime |-> "Tue 2pm"] >> }

\* Every response map over the keys: each key absent, null or one of the values.
TallyResponseMaps == UNION { [K -> Availability] : K \in SUBSET TallyKeys }

(***************************************************************************)
(* EventPage.tsx: summary.                                                 *)
(***************************************************************************)

\* result[dc.id] = { available: 0, maybe: 0, unavailable: 0, score: 0 }
ZeroTally == [available |-> 0, maybe |-> 0, unavailable |-> 0, score |-> 0]

\* event.dateCandidates.forEach(dc => { result[dc.id] = {...} })
InitResult(dateCandidates) ==
    [dateId \in {dateCandidates[i].id : i \in DOMAIN dateCandidates} |-> ZeroTally]

\* CountEntry with 'available' weighted 1.
CountEntryAvailableScoresOne(result, dateId, availability) ==
    IF dateId \notin DOMAIN result THEN result
    ELSE IF availability = "available" THEN
        [result EXCEPT ![dateId].available = @ + 1, ![dateId].score = @ + 1]
    ELSE IF availability = "maybe" THEN
        [result EXCEPT ![dateId].maybe = @ + 1, ![dateId].score = @ + 1]
    ELSE IF availability = "unavailable" THEN
        [result EXCEPT ![dateId].unavailable = @ + 1]
    ELSE result

\* CountEntry without the result[dateId] test: a key that is no candidate gets an entry.
CountEntryNoKeyCheck(result, dateId, availability) ==
    LET r == IF dateId \in DOMAIN result THEN result
             ELSE [d \in DOMAIN result \cup {dateId} |->
                      IF d \in DOMAIN result THEN result[d] ELSE ZeroTally]
    IN  IF availability = "available" THEN
            [r EXCEPT ![dateId].available = @ + 1, ![dateId].score = @ + 2]
        ELSE IF availability = "maybe" THEN
            [r EXCEPT ![dateId].maybe = @ + 1, ![dateId].score = @ + 1]
        ELSE IF availability = "unavailable" THEN
            [r EXCEPT ![dateId].unavailable = @ + 1]
        ELSE r

\* CountEntry with a final else branch: every other value counts as unavailable.
CountEntryNullAsUnavailable(result, dateId, availability) ==
    IF dateId \notin DOMAIN result THEN result
    ELSE IF availability = "available" THEN
        [result EXCEPT ![dateId].available = @ + 1, ![dateId].score = @ + 2]
    ELSE IF availability = "maybe" THEN
        [result EXCEPT ![dateId].maybe = @ + 1, ![dateId].score = @ + 1]
    ELSE [result EXCEPT ![dateId].unavailable = @ + 1]

\* The body of the inner forEach: one [dateId, availability] entry of a response map.
CountEntry(result, dateId, availability) ==
    IF dateId \notin DOMAIN result THEN result
    ELSE IF availability = "available" THEN
        [result EXCEPT ![dateId].available = @ + 1, ![dateId].score = @ + 2]
    ELSE IF availability = "maybe" THEN
        [result EXCEPT ![dateId].maybe = @ + 1, ![dateId].score = @ + 1]
    ELSE IF availability = "unavailable" THEN
        [result EXCEPT ![dateId].unavailable = @ + 1]
    ELSE result

\* Object.entries(p.responses).forEach(...): the entries still to visit are `keys`.
RECURSIVE CountResponses(_, _, _)
CountResponses(result, responses, keys) ==
    IF keys = {} THEN result
    ELSE LET dateId == CHOOSE k \in keys : TRUE
         IN  CountResponses(CountEntry(result, dateId, responses[dateId]),
                            responses, keys \ {dateId})

\* event.participants.forEach(p => ...), from participant i on.
RECURSIVE CountParticipants(_, _, _)
CountParticipants(result, participants, i) ==
    IF i > Len(participants) THEN result
    ELSE CountParticipants(
             CountResponses(result, participants[i].responses,
                            DOMAIN participants[i].responses),
             participants, i + 1)

\* const summary = useMemo(() => {...}, [event]); {} is the function with no key.
Summary(ev) ==
    IF ev = NoEvent THEN << >>
    ELSE CountParticipants(InitResult(ev.dateCandidates), ev.participants, 1)

(***************************************************************************)
(* EventPage.tsx: bestDateIds.                                             *)
(***************************************************************************)

\* Math.max() of no argument is -Infinity: a value below every score.
NegInfinity == -1

\* Math.max(...Object.values(summary).map(s => s.score))
MaxScore(sum) ==
    IF DOMAIN sum = {} THEN NegInfinity
    ELSE CHOOSE m \in {sum[d].score : d \in DOMAIN sum} :
             \A d \in DOMAIN sum : sum[d].score <= m

\* Object.keys(summary): the keys in the order they were inserted, which is the
\* order of event.dateCandidates.
SummaryKeys(ev) == [i \in DOMAIN ev.dateCandidates |-> ev.dateCandidates[i].id]

RECURSIVE FilterScore(_, _, _)
FilterScore(ids, sum, maxScore) ==
    IF ids = << >> THEN << >>
    ELSE LET rest == FilterScore(Tail(ids), sum, maxScore)
         IN  IF sum[Head(ids)].score = maxScore THEN <<Head(ids)>> \o rest ELSE rest

\* BestDateIds keeping only the first candidate at the maximum.
BestDateIdsFirstOnly(ev, sum) ==
    IF ev = NoEvent \/ Len(ev.participants) = 0 THEN << >>
    ELSE LET maxScore == MaxScore(sum)
             best == FilterScore(SummaryKeys(ev), sum, maxScore)
         IN  IF maxScore = 0 THEN << >>
             ELSE IF best = << >> THEN << >> ELSE <<Head(best)>>

\* BestDateIds without the maxScore === 0 test.
BestDateIdsNoZeroCheck(ev, sum) ==
    IF ev = NoEvent \/ Len(ev.participants) = 0 THEN << >>
    ELSE FilterScore(SummaryKeys(ev), sum, MaxScore(sum))

\* const bestDateIds = useMemo(() => {...}, [summary, event])
BestDateIds(ev, sum) ==
    IF ev = NoEvent \/ Len(ev.participants) = 0 THEN << >>
    ELSE LET maxScore == MaxScore(sum)
         IN  IF maxScore = 0 THEN << >>
             ELSE FilterScore(SummaryKeys(ev), sum, maxScore)

\* A render of EventPage with event ev: both memos are recomputed.
Render(ev) ==
    /\ event' = ev
    /\ summary' = Summary(ev)
    /\ bestDateIds' = BestDateIds(ev, summary')

(***************************************************************************)
(* The remote event store (lib/supabase.ts): four tables.                  *)
(***************************************************************************)

\* Most operations (fetchEvent or addParticipantResponse calls) started in a run.
MaxOps == 3

\* The identifiers an event is asked for by: e1 and e2 are in the store, e0 is not.
EventIds == {"e0", "e1", "e2"}

\* The identifiers the store gives to the events created while the application
\* runs, in the order it gives them.
NewEventIds == <<"e3", "e4", "e5", "e6">>

\* The identifiers the store gives to the date candidates it inserts, in order.
NewCandidateIds == <<"d4", "d5", "d6", "d7", "d8", "d9", "d10", "d11">>

\* Every identifier an event of the store can have.
AllEventIds == EventIds \cup {NewEventIds[i] : i \in DOMAIN NewEventIds}

\* JavaScript undefined as a field value.
Undefined == "undefined"

\* null where a response identifier is expected (the store numbers the responses
\* from 1).
NoResponseId == 0

\* The store before the application starts: two events created earlier.
InitDb ==
    [events |->
        [id \in {"e1", "e2"} |->
            IF id = "e1"
            THEN [id |-> "e1", title |-> "Team Sync", memo |-> "",
                  organizer_email |-> "organizer@example.com", created_at |-> 0]
            ELSE [id |-> "e2", title |-> "Lunch", memo |-> "bring cash",
                  organizer_email |-> Null, created_at |-> 0]],
     date_candidates |->
        { [id |-> "d1", event_id |-> "e1", datetime |-> "Mon 10am", sort_order |-> 0],
          [id |-> "d2", event_id |-> "e1", datetime |-> "Tue 2pm", sort_order |-> 1],
          [id |-> "d3", event_id |-> "e2", datetime |-> "Wed noon", sort_order |-> 0] },
     participant_responses |-> {},
     response_availability |-> {},
     clock |-> 0]

\* What a store call answers: { data, error }.
OkReply(data) == [status |-> "ok", instanceOfError |-> FALSE, data |-> data]
NotFoundReply == [status |-> "PGRST116", instanceOfError |-> FALSE, data |-> << >>]
NoReply == [status |-> "none", instanceOfError |-> FALSE, data |-> << >>]

\* .from('events').select('*').eq('id', id).single()
SelectEvent(d, id) ==
    IF id \in DOMAIN d.events THEN OkReply(d.events[id]) ELSE NotFoundReply

\* .order('sort_order'): the rows by ascending sort position.
RECURSIVE OrderBySortOrder(_)
OrderBySortOrder(rows) ==
    IF rows = {} THEN << >>
    ELSE LET first == CHOOSE r \in rows : \A q \in rows : r.sort_order <= q.sort_order
         IN  <<first>> \o OrderBySortOrder(rows \ {first})

\* .from('date_candidates').select('*').eq('event_id', id).order('sort_order')
SelectDateCandidates(d, id) ==
    OkReply(OrderBySortOrder({r \in d.date_candidates : r.event_id = id}))

\* .order('created_at'): the rows by ascending creation time.
RECURSIVE OrderByCreatedAt(_)
OrderByCreatedAt(rows) ==
    IF rows = {} THEN << >>
    ELSE LET first == CHOOSE r \in rows : \A q \in rows : r.created_at <= q.created_at
         IN  <<first>> \o OrderByCreatedAt(rows \ {first})

\* .from('participant_responses').select('*, response_availability (...)')
\* .eq('event_id', id).order('created_at'): each response with its availability rows.
SelectResponses(d, id) ==
    LET rows == OrderByCreatedAt({r \in d.participant_responses : r.event_id = id})
    IN  OkReply([i \in DOMAIN rows |->
                    [id |-> rows[i].id, name |-> rows[i].name, comment |-> rows[i].comment,
                     created_at |-> rows[i].created_at,
                     response_availability |->
                        {[date_candidate_id |-> a.date_candidate_id,
                          availability |-> a.availability] :
                            a \in {x \in d.response_availability :
                                      x.response_id = rows[i].id}}]])

\* .from('participant_responses').insert({event_id, name, comment}).select().single():
\* the store gives the row its id and creation time.
InsertResponse(d, eventId, name, comment) ==
    [d EXCEPT !.clock = @ + 1,
              !.participant_responses = @ \cup
                  {[id |-> d.clock + 1, event_id |-> eventId, name |-> name,
                    comment |-> comment, created_at |-> d.clock + 1]}]

InsertedResponse(d, eventId, name, comment) ==
    [id |-> d.clock + 1, event_id |-> eventId, name |-> name,
     comment |-> comment, created_at |-> d.clock + 1]

\* .from('response_availability').insert(availabilityRecords)
InsertAvailability(d, records) ==
    [d EXCEPT !.response_availability = @ \cup records]

\* The first n identifiers of ids that no row of `used` has.
RECURSIVE FirstUnused(_, _, _)
FirstUnused(ids, used, n) ==
    IF n = 0 \/ ids = << >> THEN << >>
    ELSE IF Head(ids) \in used THEN FirstUnused(Tail(ids), used, n)
    ELSE <<Head(ids)>> \o FirstUnused(Tail(ids), used, n - 1)

\* The row .from('events').insert({title, memo, organizer_email}).select().single()
\* answers: the store gives the row its id and creation time.
InsertedEvent(d, title, memo, organizer_email) ==
    [id |-> FirstUnused(NewEventIds, DOMAIN d.events, 1)[1], title |-> title,
     memo |-> memo, organizer_email |-> organizer_email, created_at |-> d.clock + 1]

InsertEvent(d, title, memo, organizer_email) ==
    LET row == InsertedEvent(d, title, memo, organizer_email)
    IN  [d EXCEPT !.clock = @ + 1,
                  !.events = [id \in DOMAIN d.events \cup {row.id} |->
                                 IF id = row.id THEN row ELSE d.events[id]]]

\* .from('date_candidates').insert(dateCandidates.map((dc, index) => ({event_id,
\* datetime, sort_order: index}))): the store gives each row its id.
InsertDateCandidates(d, eventId, dateCandidates) ==
    LET ids == FirstUnused(NewCandidateIds, {r.id : r \in d.date_candidates},
                           Len(dateCandidates))
    IN  [d EXCEPT !.date_candidates = @ \cup
            {[id |-> ids[i], event_id |-> eventId,
              datetime |-> dateCandidates[i].datetime, sort_order |-> i - 1] :
                i \in DOMAIN dateCandidates}]

\* UpdateResponse that writes the name to the event of the response as well.
UpdateResponseAndEvent(d, responseId, name, comment) ==
    [d EXCEPT !.participant_responses =
                 {IF r.id = responseId THEN [r EXCEPT !.name = name, !.comment = comment]
                  ELSE r : r \in @},
              !.events =
                 [id \in DOMAIN @ |->
                     IF \E r \in d.participant_responses :
                           r.id = responseId /\ r.event_id = id
                     THEN [@[id] EXCEPT !.title = name] ELSE @[id]]]

\* .from('participant_responses').update({name, comment}).eq('id', responseId)
UpdateResponse(d, responseId, name, comment) ==
    [d EXCEPT !.participant_responses =
        {IF r.id = responseId THEN [r EXCEPT !.name = name, !.comment = comment] ELSE r :
            r \in @}]

\* .from('response_availability').delete().eq('response_id', responseId)
DeleteAvailability(d, responseId) ==
    [d EXCEPT !.response_availability = {a \in @ : a.response_id # responseId}]

\* DeleteResponse without the cascade: the availability records stay.
DeleteResponseOnly(d, responseId) ==
    [d EXCEPT !.participant_responses = {r \in @ : r.id # responseId}]

\* .from('participant_responses').delete().eq('id', responseId): the availability
\* records of the response cascade.
DeleteResponse(d, responseId) ==
    [d EXCEPT !.participant_responses = {r \in @ : r.id # responseId},
              !.response_availability = {a \in @ : a.response_id # responseId}]

(***************************************************************************)
(* AppContext.tsx: fetchEvent, the assembly of the event and the cache.    *)
(***************************************************************************)

\* What fetchEvent returns when it returns no event (null).
NullEvent == [null |-> TRUE]

\* Object.fromEntries((r.response_availability || []).map(ra => [id, availability]))
FromEntries(rows) ==
    [dateId \in {ra.date_candidate_id : ra \in rows} |->
        (CHOOSE ra \in rows : ra.date_candidate_id = dateId).availability]

\* x || fallback for a string column: null and '' are falsy.
OrElse(x, fallback) == IF x = Null \/ x = "" THEN fallback ELSE x

\* const event: ScheduleEvent = {...}
AssembleEvent(dbEvent, dateCandidates, responses) ==
    [id |-> dbEvent.id,
     title |-> dbEvent.title,
     memo |-> OrElse(dbEvent.memo, ""),
     organizerEmail |-> OrElse(dbEvent.organizer_email, Undefined),
     createdAt |-> dbEvent.created_at,
     dateCandidates |->
        [i \in DOMAIN dateCandidates |->
            [id |-> dateCandidates[i].id, datetime |-> dateCandidates[i].datetime]],
     participants |->
        [i \in DOMAIN responses |->
            [id |-> responses[i].id,
             name |-> responses[i].name,
             comment |-> OrElse(responses[i].comment, ""),
             createdAt |-> responses[i].created_at,
             responses |-> FromEntries(responses[i].response_availability)]]]

\* Upsert without the find: the event is always appended.
UpsertAppendAlways(prev, id, ev) == Append(prev, ev)

\* setEvents(prev => ...): replace the entry of id where it is, or append.
Upsert(prev, id, ev) ==
    IF \E i \in DOMAIN prev : prev[i].id = id
    THEN [i \in DOMAIN prev |-> IF prev[i].id = id THEN ev ELSE prev[i]]
    ELSE Append(prev, ev)

\* events.find(e => e.id === id): the first entry with that id, or undefined.
Find(cache, id) ==
    IF \E i \in DOMAIN cache : cache[i].id = id
    THEN cache[CHOOSE i \in DOMAIN cache :
                   cache[i].id = id /\ \A j \in DOMAIN cache : cache[j].id = id => i <= j]
    ELSE NoEvent

\* err instanceof Error ? err.message : fallback
ErrorMessage(reply, fallback) ==
    IF reply.instanceOfError THEN "store failure" ELSE fallback

(***************************************************************************)
(* The asynchronous calls in progress.  A call is a record: fn is the      *)
(* context operation that was called, pc the store call it awaits, phase   *)
(* whether that call is still on its way to the store ("sent") or its      *)
(* answer is on its way back ("replied").                                  *)
(***************************************************************************)

\* The identifiers the store has given that no response in store d has: those of the
\* deleted responses (and the clock values given to other rows).
Gone(d) == (1..d.clock) \ {r.id : r \in d.participant_responses}

NewCall(fn, pc, id, stamp, name, comment, responses) ==
    [fn |-> fn, pc |-> pc, phase |-> "sent", reply |-> NoReply, id |-> id,
     stamp |-> stamp, dbEvent |-> << >>, dateCandidates |-> << >>,
     name |-> name, comment |-> comment, responses |-> responses, dbResponse |-> << >>,
     responseId |-> NoResponseId, title |-> "", memo |-> "", organizerEmail |-> Undefined,
     newCandidates |-> << >>,
     handler |-> "none",         \* the page handler that awaits the call, if one does
     page |-> FALSE,             \* the page that called is still mounted
     cacheAtCall |-> events,     \* history: the cache when the operation was called
     goneAtFetch |-> Gone(db)]   \* history: Gone(db) when the fetch of the call started

\* The next store call of a call: the locals are kept, the answer is awaited.
Await(p, pc) == [p EXCEPT !.pc = pc, !.phase = "sent", !.reply = NoReply]

RemoveAt(s, k) == SubSeq(s, 1, k - 1) \o SubSeq(s, k + 1, Len(s))

\* The calls in progress once the promise of call k is settled: a call that no
\* handler awaits is over; the continuation of a handler that awaits it is queued
\* and runs next (HandlerContinues).
Settles(k, outcome) ==
    IF procs[k].handler = "none"
    THEN RemoveAt(procs, k)
    ELSE [procs EXCEPT ![k] = [@ EXCEPT !.pc = "settled", !.phase = outcome]]

Replied(k, pc) ==
    /\ k \in DOMAIN procs
    /\ procs[k].pc = pc
    /\ procs[k].phase = "replied"

Sent(k, pc) ==
    /\ k \in DOMAIN procs
    /\ procs[k].pc = pc
    /\ procs[k].phase = "sent"

\* The state of the provider after construction (the useState initial values), in
\* front of the store as it is.
AppInit ==
    /\ events = << >>
    /\ isLoading = FALSE
    /\ error = Null
    /\ db = InitDb
    /\ procs = << >>
    /\ nOps = 0
    /\ fetchSeq = 0
    /\ lastFetched = [id \in AllEventIds |-> [event |-> NoEvent, stamp |-> 0]]
    /\ newest = [id \in AllEventIds |-> [event |-> NoEvent, stamp |-> 0]]
    /\ returned = [id |-> "", value |-> NullEvent, why |-> "none"]
    /\ settled = [fn |-> "none", outcome |-> "none"]

(***************************************************************************)
(* The store serves the calls it has received, one at a time.              *)
(***************************************************************************)

StoreSelectEvent ==
    \E k \in DOMAIN procs :
        /\ Sent(k, "selectEvent")
        /\ procs' = [procs EXCEPT ![k].phase = "replied",
                                  ![k].reply = SelectEvent(db, procs[k].id)]
        /\ UNCHANGED <<events, isLoading, error, db, nOps, fetchSeq, lastFetched,
                       newest, returned, settled, tallyVars, routeVars, link>>

StoreSelectDateCandidates ==
    \E k \in DOMAIN procs :
        /\ Sent(k, "selectDateCandidates")
        /\ procs' = [procs EXCEPT ![k].phase = "replied",
                                  ![k].reply = SelectDateCandidates(db, procs[k].id)]
        /\ UNCHANGED <<events, isLoading, error, db, nOps, fetchSeq, lastFetched,
                       newest, returned, settled, tallyVars, routeVars, link>>

StoreSelectResponses ==
    \E k \in DOMAIN procs :
        /\ Sent(k, "selectResponses")
        /\ procs' = [procs EXCEPT ![k].phase = "replied",
                                  ![k].reply = SelectResponses(db, procs[k].id)]
        /\ UNCHANGED <<events, isLoading, error, db, nOps, fetchSeq, lastFetched,
                       newest, returned, settled, tallyVars, routeVars, link>>

StoreInsertResponse ==
    \E k \in DOMAIN procs :
        /\ Sent(k, "insertResponse")
        /\ db' = InsertResponse(db, procs[k].id, procs[k].name, procs[k].comment)
        /\ procs' = [procs EXCEPT ![k].phase = "replied",
                                  ![k].reply = OkReply(InsertedResponse(db, procs[k].id,
                                                   procs[k].name, procs[k].comment))]
        /\ UNCHANGED <<events, isLoading, error, nOps, fetchSeq, lastFetched,
                       newest, returned, settled, tallyVars, routeVars, link>>

\* AvailabilityRecords without the filter: a null entry is stored as 'unavailable'.
AvailabilityRecordsOfAll(responseId, responses) ==
    {[response_id |-> responseId, date_candidate_id |-> dateCandidateId,
      availability |-> IF responses[dateCandidateId] = Null THEN "unavailable"
                       ELSE responses[dateCandidateId]] :
        dateCandidateId \in DOMAIN responses}

\* availabilityRecords: the entries of the map that are not null, as rows.
AvailabilityRecords(responseId, responses) ==
    {[response_id |-> responseId, date_candidate_id |-> dateCandidateId,
      availability |-> responses[dateCandidateId]] :
        dateCandidateId \in {c \in DOMAIN responses : responses[c] # Null}}

\* The store answers an insert that names a response it does not hold.
ForeignKeyReplies ==
    {[status |-> "error", instanceOfError |-> b, data |-> << >>] : b \in BOOLEAN}

\* The availability rows are inserted; rows of a response that is no longer in the
\* store are refused (the rows belong to their response: they cascade with it).
StoreInsertAvailability ==
    \E k \in DOMAIN procs :
        /\ Sent(k, "insertAvailability")
        /\ IF \E r \in db.participant_responses : r.id = procs[k].responseId
           THEN /\ db' = InsertAvailability(db,
                            AvailabilityRecords(procs[k].responseId, procs[k].responses))
                /\ procs' = [procs EXCEPT ![k].phase = "replied",
                                          ![k].reply = OkReply(<< >>)]
           ELSE /\ db' = db
                /\ \E reply \in ForeignKeyReplies :
                      procs' = [procs EXCEPT ![k].phase = "replied", ![k].reply = reply]
        /\ UNCHANGED <<events, isLoading, error, nOps, fetchSeq, lastFetched,
                       newest, returned, settled, tallyVars, routeVars, link>>

\* x || null for an optional string.
OrNull(x) == IF x = Undefined \/ x = Null \/ x = "" THEN Null ELSE x

StoreInsertEvent ==
    \E k \in DOMAIN procs :
        /\ Sent(k, "insertEvent")
        /\ db' = InsertEvent(db, procs[k].title, procs[k].memo,
                             OrNull(procs[k].organizerEmail))
        /\ procs' = [procs EXCEPT ![k].phase = "replied",
                                  ![k].reply = OkReply(InsertedEvent(db, procs[k].title,
                                                   procs[k].memo,
                                                   OrNull(procs[k].organizerEmail)))]
        /\ UNCHANGED <<events, isLoading, error, nOps, fetchSeq, lastFetched,
                       newest, returned, settled, tallyVars, routeVars, link>>

StoreInsertDateCandidates ==
    \E k \in DOMAIN procs :
        /\ Sent(k, "insertDateCandidates")
        /\ db' = InsertDateCandidates(db, procs[k].dbEvent.id, procs[k].newCandidates)
        /\ procs' = [procs EXCEPT ![k].phase = "replied", ![k].reply = OkReply(<< >>)]
        /\ UNCHANGED <<events, isLoading, error, nOps, fetchSeq, lastFetched,
                       newest, returned, settled, tallyVars, routeVars, link>>

\* An update or a delete that matches no row is no error.
StoreUpdateResponse ==
    \E k \in DOMAIN procs :
        /\ Sent(k, "updateResponse")
        /\ db' = UpdateResponse(db, procs[k].responseId, procs[k].name, procs[k].comment)
        /\ procs' = [procs EXCEPT ![k].phase = "replied", ![k].reply = OkReply(<< >>)]
        /\ UNCHANGED <<events, isLoading, error, nOps, fetchSeq, lastFetched,
                       newest, returned, settled, tallyVars, routeVars, link>>

StoreDeleteAvailability ==
    \E k \in DOMAIN procs :
        /\ Sent(k, "deleteAvailability")
        /\ db' = DeleteAvailability(db, procs[k].responseId)
        /\ procs' = [procs EXCEPT ![k].phase = "replied", ![k].reply = OkReply(<< >>)]
        /\ UNCHANGED <<events, isLoading, error, nOps, fetchSeq, lastFetched,
                       newest, returned, settled, tallyVars, routeVars, link>>

StoreDeleteResponse ==
    \E k \in DOMAIN procs :
        /\ Sent(k, "deleteResponse")
        /\ db' = DeleteResponse(db, procs[k].responseId)
        /\ procs' = [procs EXCEPT ![k].phase = "replied", ![k].reply = OkReply(<< >>)]
        /\ UNCHANGED <<events, isLoading, error, nOps, fetchSeq, lastFetched,
                       newest, returned, settled, tallyVars, routeVars, link>>

StoreCalls ==
    {"selectEvent", "selectDateCandidates", "selectResponses",
     "insertResponse", "insertAvailability",
     "insertEvent", "insertDateCandidates", "updateResponse", "deleteAvailability",
     "deleteResponse"}

\* A store call fails for a reason other than not-found; nothing is read or written.
\* The error is an Error instance or a plain object, as the client library has it.
StoreFail ==
    \E k \in DOMAIN procs, instanceOfError \in BOOLEAN :
        /\ procs[k].pc \in StoreCalls
        /\ procs[k].phase = "sent"
        /\ procs' = [procs EXCEPT ![k].phase = "replied",
                                  ![k].reply = [status |-> "error",
                                                instanceOfError |-> instanceOfError,
                                                data |-> << >>]]
        /\ UNCHANGED <<events, isLoading, error, db, nOps, fetchSeq, lastFetched,
                       newest, returned, settled, tallyVars, routeVars, link>>

(***************************************************************************)
(* AppContext.tsx: fetchEvent.                                             *)
(***************************************************************************)

\* fetchEvent(id) called from a page: the mount-time hash parse, the mount of
\* EventPage, the tab becoming visible, the refresh button.
FetchEventCall ==
    \E id \in EventIds :
        /\ nOps < MaxOps
        /\ nOps' = nOps + 1
        /\ fetchSeq' = fetchSeq + 1
        /\ isLoading' = TRUE
        /\ error' = Null
        /\ procs' = Append(procs, NewCall("fetchEvent", "selectEvent", id, fetchSeq + 1,
                                          "", "", << >>))
        /\ UNCHANGED <<events, db, lastFetched, newest, returned, settled, tallyVars, routeVars, link>>

\* event?.organizerEmail is truthy.
HasOrganizerEmail(value) ==
    /\ value # NullEvent
    /\ value.organizerEmail # Undefined

\* fetchEvent of call k returns value (after its finally block) to its caller: a
\* page, which drops it, addParticipantResponse, which goes on to the notification,
\* or another mutating operation, which resolves.
FetchEventReturns(k, value, why) ==
    /\ isLoading' = FALSE
    /\ returned' = [id |-> procs[k].id, value |-> value, why |-> why]
    /\ IF procs[k].fn = "fetchEvent"
       THEN /\ procs' = RemoveAt(procs, k)
            /\ UNCHANGED settled
       ELSE IF procs[k].fn = "addParticipantResponse" /\ HasOrganizerEmail(value)
       THEN /\ procs' = [procs EXCEPT ![k] = Await([@ EXCEPT !.dbEvent = << >>,
                                                            !.dateCandidates = << >>],
                                                   "sendEmailNotification")]
            /\ UNCHANGED settled
       ELSE /\ procs' = Settles(k, "resolved")
            /\ settled' = [fn |-> procs[k].fn, outcome |-> "resolved"]

\* FetchEventRecvEvent without the PGRST116 test: not-found is thrown like any error.
FetchEventRecvEventNotFoundThrows ==
    \E k \in DOMAIN procs :
        /\ Replied(k, "selectEvent")
        /\ IF procs[k].reply.status \in {"PGRST116", "error"}
           THEN /\ error' = ErrorMessage(procs[k].reply, "Failed to fetch event")
                /\ FetchEventReturns(k, NullEvent,
                        IF procs[k].reply.status = "error" THEN "error" ELSE "notFound")
                /\ UNCHANGED <<events, lastFetched, newest>>
           ELSE /\ procs' = [procs EXCEPT ![k] = Await([@ EXCEPT !.dbEvent = procs[k].reply.data],
                                                       "selectDateCandidates")]
                /\ UNCHANGED <<events, isLoading, error, lastFetched, newest,
                               returned, settled>>
        /\ UNCHANGED <<db, nOps, fetchSeq, tallyVars, routeVars, link>>

\* The answer to the header fetch: not-found returns null, another error is thrown
\* into the catch block, a row starts the fetch of the date candidates.  (.single()
\* answers a row or an error, so the !eventData test never decides.)
FetchEventRecvEvent ==
    \E k \in DOMAIN procs :
        /\ Replied(k, "selectEvent")
        /\ IF procs[k].reply.status = "PGRST116"
           THEN /\ FetchEventReturns(k, NullEvent, "notFound")
                /\ UNCHANGED <<events, error, lastFetched, newest>>
           ELSE IF procs[k].reply.status = "error"
           THEN /\ error' = ErrorMessage(procs[k].reply, "Failed to fetch event")
                /\ FetchEventReturns(k, NullEvent, "error")
                /\ UNCHANGED <<events, lastFetched, newest>>
           ELSE /\ procs' = [procs EXCEPT ![k] = Await([@ EXCEPT !.dbEvent = procs[k].reply.data],
                                                       "selectDateCandidates")]
                /\ UNCHANGED <<events, isLoading, error, lastFetched, newest,
                               returned, settled>>
        /\ UNCHANGED <<db, nOps, fetchSeq, tallyVars, routeVars, link>>

\* FetchEventRecvDateCandidates that asks again when the fetch failed.
FetchEventRecvDateCandidatesRetries ==
    \E k \in DOMAIN procs :
        /\ Replied(k, "selectDateCandidates")
        /\ IF procs[k].reply.status = "error"
           THEN /\ procs' = [procs EXCEPT ![k] = Await(@, "selectDateCandidates")]
                /\ UNCHANGED <<events, isLoading, error, lastFetched, newest,
                               returned, settled>>
           ELSE /\ procs' = [procs EXCEPT ![k] = Await([@ EXCEPT !.dateCandidates = procs[k].reply.data],
                                                       "selectResponses")]
                /\ UNCHANGED <<events, isLoading, error, lastFetched, newest,
                               returned, settled>>
        /\ UNCHANGED <<db, nOps, fetchSeq, tallyVars, routeVars, link>>

\* The answer to the fetch of the date candidates: an error is thrown into the catch
\* block, the rows start the fetch of the responses.
FetchEventRecvDateCandidates ==
    \E k \in DOMAIN procs :
        /\ Replied(k, "selectDateCandidates")
        /\ IF procs[k].reply.status = "error"
           THEN /\ error' = ErrorMessage(procs[k].reply, "Failed to fetch event")
                /\ FetchEventReturns(k, NullEvent, "error")
                /\ UNCHANGED <<events, lastFetched, newest>>
           ELSE /\ procs' = [procs EXCEPT ![k] = Await([@ EXCEPT !.dateCandidates = procs[k].reply.data],
                                                       "selectResponses")]
                /\ UNCHANGED <<events, isLoading, error, lastFetched, newest,
                               returned, settled>>
        /\ UNCHANGED <<db, nOps, fetchSeq, tallyVars, routeVars, link>>

\* FetchEventRecvResponses that drops the result of a fetch started before the one
\* whose result is cached.
FetchEventRecvResponsesLatestOnly ==
    \E k \in DOMAIN procs :
        /\ Replied(k, "selectResponses")
        /\ IF procs[k].reply.status = "error"
           THEN /\ error' = ErrorMessage(procs[k].reply, "Failed to fetch event")
                /\ FetchEventReturns(k, NullEvent, "error")
                /\ UNCHANGED <<events, lastFetched, newest>>
           ELSE LET ev == AssembleEvent(procs[k].dbEvent, procs[k].dateCandidates,
                                        procs[k].reply.data)
                    id == procs[k].id
                IN  /\ events' = IF procs[k].stamp > newest[id].stamp
                                 THEN Upsert(events, id, ev) ELSE events
                    /\ lastFetched' = [lastFetched EXCEPT
                                          ![id] = [event |-> ev, stamp |-> procs[k].stamp]]
                    /\ newest' = IF procs[k].stamp > newest[id].stamp
                                 THEN [newest EXCEPT
                                          ![id] = [event |-> ev, stamp |-> procs[k].stamp]]
                                 ELSE newest
                    /\ FetchEventReturns(k, ev, "ok")
                    /\ UNCHANGED error
        /\ UNCHANGED <<db, nOps, fetchSeq, tallyVars, routeVars, link>>

\* The answer to the fetch of the responses: the event is assembled and put into the
\* cache, and fetchEvent returns it.
FetchEventRecvResponses ==
    \E k \in DOMAIN procs :
        /\ Replied(k, "selectResponses")
        /\ IF procs[k].reply.status = "error"
           THEN /\ error' = ErrorMessage(procs[k].reply, "Failed to fetch event")
                /\ FetchEventReturns(k, NullEvent, "error")
                /\ UNCHANGED <<events, lastFetched, newest>>
           ELSE LET ev == AssembleEvent(procs[k].dbEvent, procs[k].dateCandidates,
                                        procs[k].reply.data)
                    id == procs[k].id
                IN  /\ events' = Upsert(events, id, ev)
                    /\ lastFetched' = [lastFetched EXCEPT
                                          ![id] = [event |-> ev, stamp |-> procs[k].stamp]]
                    /\ newest' = IF procs[k].stamp > newest[id].stamp
                                 THEN [newest EXCEPT
                                          ![id] = [event |-> ev, stamp |-> procs[k].stamp]]
                                 ELSE newest
                    /\ FetchEventReturns(k, ev, "ok")
                    /\ UNCHANGED error
        /\ UNCHANGED <<db, nOps, fetchSeq, tallyVars, routeVars, link>>

(***************************************************************************)
(* AppContext.tsx: addParticipantResponse, called by ResponsePage.         *)
(***************************************************************************)

Names == {"Ann"}

Comments == {""}

\* The maps the response form submits for event ev: every candidate of ev is a key
\* (null until the participant picks a value).
FormResponses(ev) ==
    LET ids == {ev.dateCandidates[i].id : i \in DOMAIN ev.dateCandidates}
        first == ev.dateCandidates[1].id
    IN  { [c \in ids |-> Null],
          [c \in ids |-> "available"],
          [c \in ids |-> IF c = first THEN "unavailable" ELSE Null] }

\* fetchEvent(eventId) called inside call k, whose locals are those of p.
FetchEventAfter(k, p) ==
    /\ fetchSeq' = fetchSeq + 1
    /\ isLoading' = TRUE
    /\ error' = Null
    /\ procs' = [procs EXCEPT ![k] = Await([p EXCEPT !.stamp = fetchSeq + 1,
                                                     !.goneAtFetch = Gone(db)],
                                           "selectEvent")]

\* fetchEvent(eventId) called inside call k, which awaited its last store write.
FetchEventWithin(k) == FetchEventAfter(k, procs[k])

\* Rejects without the `throw err` of the catch block: the operation resolves.
RejectsWithoutThrow(k, fallback) ==
    /\ error' = ErrorMessage(procs[k].reply, fallback)
    /\ isLoading' = FALSE
    /\ procs' = Settles(k, "resolved")
    /\ settled' = [fn |-> procs[k].fn, outcome |-> "resolved"]

\* The catch and finally blocks of a mutating operation: the error slot is set, the
\* error is thrown on to the caller.
Rejects(k, fallback) ==
    /\ error' = ErrorMessage(procs[k].reply, fallback)
    /\ isLoading' = FALSE
    /\ procs' = Settles(k, "rejected")
    /\ settled' = [fn |-> procs[k].fn, outcome |-> "rejected"]

\* ResponsePage.handleSubmit without an editing response: the page shows a cached
\* event and the name is not blank.
AddParticipantResponseCall ==
    \E i \in DOMAIN events, name \in Names, comment \in Comments :
        \E responses \in FormResponses(events[i]) :
            /\ nOps < MaxOps
            /\ nOps' = nOps + 1
            /\ isLoading' = TRUE
            /\ error' = Null
            /\ procs' = Append(procs, NewCall("addParticipantResponse", "insertResponse",
                                              events[i].id, 0, name, comment, responses))
            /\ UNCHANGED <<events, db, fetchSeq, lastFetched, newest, returned,
                           settled, tallyVars, routeVars, link>>

\* The answer to the insert of the response row.
AddParticipantResponseRecvResponse ==
    \E k \in DOMAIN procs :
        /\ Replied(k, "insertResponse")
        /\ IF procs[k].reply.status = "error"
           THEN /\ Rejects(k, "Failed to add response")
                /\ UNCHANGED fetchSeq
           ELSE IF AvailabilityRecords(procs[k].reply.data.id, procs[k].responses) # {}
           THEN /\ procs' = [procs EXCEPT ![k] = Await([@ EXCEPT !.dbResponse = procs[k].reply.data,
                                                                  !.responseId = procs[k].reply.data.id],
                                                       "insertAvailability")]
                /\ UNCHANGED <<isLoading, error, fetchSeq, settled>>
           ELSE /\ FetchEventAfter(k, [procs[k] EXCEPT !.dbResponse = procs[k].reply.data,
                                                        !.responseId = procs[k].reply.data.id])
                /\ UNCHANGED settled
        /\ UNCHANGED <<events, db, nOps, lastFetched, newest, returned, tallyVars, routeVars, link>>

\* The answer to the insert of the availability rows.
AddParticipantResponseRecvAvailability ==
    \E k \in DOMAIN procs :
        /\ Replied(k, "insertAvailability")
        /\ procs[k].fn = "addParticipantResponse"
        /\ IF procs[k].reply.status = "error"
           THEN /\ Rejects(k, "Failed to add response")
                /\ UNCHANGED fetchSeq
           ELSE /\ FetchEventWithin(k)
                /\ UNCHANGED settled
        /\ UNCHANGED <<events, db, nOps, lastFetched, newest, returned, tallyVars, routeVars, link>>

\* What the mail relay can answer to the POST of sendEmailNotification: a success
\* status, another status, or nothing (fetch or response.json() throws).
NotificationOutcomes == {"ok", "notOk", "threw"}

\* The mail relay (api.web3forms.com) answers the POST, or the POST fails.
NotificationRelayAnswers ==
    \E k \in DOMAIN procs, outcome \in NotificationOutcomes :
        /\ Sent(k, "sendEmailNotification")
        /\ procs' = [procs EXCEPT ![k].phase = "replied",
                                  ![k].reply = [status |-> outcome,
                                                instanceOfError |-> outcome = "threw",
                                                data |-> << >>]]
        /\ UNCHANGED <<events, isLoading, error, db, nOps, fetchSeq, lastFetched,
                       newest, returned, settled, tallyVars, routeVars, link>>

\* SendEmailNotificationEnds without the try/catch of sendEmailNotification: what
\* the POST throws reaches the catch block of addParticipantResponse.
SendEmailNotificationEndsThrowing ==
    \E k \in DOMAIN procs :
        /\ Replied(k, "sendEmailNotification")
        /\ IF procs[k].reply.status = "threw"
           THEN Rejects(k, "Failed to add response")
           ELSE /\ isLoading' = FALSE
                /\ procs' = Settles(k, "resolved")
                /\ settled' = [fn |-> procs[k].fn, outcome |-> "resolved"]
                /\ UNCHANGED error
        /\ UNCHANGED <<events, db, nOps, fetchSeq, lastFetched, newest,
                       returned, tallyVars, routeVars, link>>

\* sendEmailNotification ends, having sent the mail or logged its failure (a status
\* that is not ok, or what the try block threw); the operation that awaited it goes
\* through its finally block and resolves.
SendEmailNotificationEnds ==
    \E k \in DOMAIN procs :
        /\ Replied(k, "sendEmailNotification")
        /\ isLoading' = FALSE
        /\ procs' = Settles(k, "resolved")
        /\ settled' = [fn |-> procs[k].fn, outcome |-> "resolved"]
        /\ UNCHANGED <<events, error, db, nOps, fetchSeq, lastFetched, newest,
                       returned, tallyVars, routeVars, link>>

(***************************************************************************)
(* AppContext.tsx: createEvent, called by CreateEventPage.                 *)
(***************************************************************************)

Titles == {"Kickoff"}

Memos == {""}

\* organizerEmail.trim() || undefined
OrganizerEmails == {Undefined, "new@example.com"}

\* The candidate lists the create form submits: at least one date is selected.
NewCandidateLists ==
    { << [datetime |-> "Fri 9am"] >>,
      << [datetime |-> "Fri 9am"], [datetime |-> "Sat 1pm"] >> }

\* createEvent(title, memo, dateCandidates, organizerEmail) up to its first await.
CreateEventCall ==
    \E title \in Titles, memo \in Memos, dateCandidates \in NewCandidateLists,
       organizerEmail \in OrganizerEmails :
        /\ nOps < MaxOps
        /\ nOps' = nOps + 1
        /\ isLoading' = TRUE
        /\ error' = Null
        /\ procs' = Append(procs,
                [NewCall("createEvent", "insertEvent", "", 0, "", "", << >>)
                    EXCEPT !.title = title, !.memo = memo,
                           !.organizerEmail = organizerEmail,
                           !.newCandidates = dateCandidates])
        /\ UNCHANGED <<events, db, fetchSeq, lastFetched, newest, returned,
                       settled, tallyVars, routeVars, link>>

\* fetchEvent(dbEvent.id) called inside createEvent call k.
FetchEventOf(k, id) ==
    /\ fetchSeq' = fetchSeq + 1
    /\ isLoading' = TRUE
    /\ error' = Null
    /\ procs' = [procs EXCEPT ![k] = Await([@ EXCEPT !.stamp = fetchSeq + 1, !.id = id,
                                                     !.goneAtFetch = Gone(db)],
                                           "selectEvent")]

\* The answer to the insert of the event row.
CreateEventRecvEvent ==
    \E k \in DOMAIN procs :
        /\ Replied(k, "insertEvent")
        /\ IF procs[k].reply.status = "error"
           THEN /\ Rejects(k, "Failed to create event")
                /\ UNCHANGED fetchSeq
           ELSE IF Len(procs[k].newCandidates) > 0
           THEN /\ procs' = [procs EXCEPT ![k] = Await([@ EXCEPT !.dbEvent = procs[k].reply.data],
                                                       "insertDateCandidates")]
                /\ UNCHANGED <<isLoading, error, fetchSeq, settled>>
           ELSE /\ FetchEventOf(k, procs[k].reply.data.id)
                /\ UNCHANGED settled
        /\ UNCHANGED <<events, db, nOps, lastFetched, newest, returned, tallyVars,
                       routeVars, link>>

\* CreateEventRecvDateCandidates that takes the event row back when the insert of
\* its candidates failed.
CreateEventRecvDateCandidatesCompensates ==
    \E k \in DOMAIN procs :
        /\ Replied(k, "insertDateCandidates")
        /\ IF procs[k].reply.status = "error"
           THEN /\ procs' = [procs EXCEPT ![k] = Await(@, "deleteEvent")]
                /\ UNCHANGED <<isLoading, error, fetchSeq, settled>>
           ELSE /\ FetchEventOf(k, procs[k].dbEvent.id)
                /\ UNCHANGED settled
        /\ UNCHANGED <<events, db, nOps, lastFetched, newest, returned, tallyVars,
                       routeVars, link>>

\* The answer to the insert of the candidate rows.
CreateEventRecvDateCandidates ==
    \E k \in DOMAIN procs :
        /\ Replied(k, "insertDateCandidates")
        /\ IF procs[k].reply.status = "error"
           THEN /\ Rejects(k, "Failed to create event")
                /\ UNCHANGED fetchSeq
           ELSE /\ FetchEventOf(k, procs[k].dbEvent.id)
                /\ UNCHANGED settled
        /\ UNCHANGED <<events, db, nOps, lastFetched, newest, returned, tallyVars,
                       routeVars, link>>

(***************************************************************************)
(* AppContext.tsx: updateParticipantResponse and deleteParticipantResponse, *)
(* called by ResponsePage for the response being edited.                   *)
(***************************************************************************)

EditedNames == {"Ann B."}

\* The maps the response form submits when it edits a response of ev: the first
\* candidate alone, or every candidate with the first one cleared.
EditedResponses(ev) ==
    LET ids == {ev.dateCandidates[i].id : i \in DOMAIN ev.dateCandidates}
        first == ev.dateCandidates[1].id
    IN  { [c \in {first} |-> "available"],
          [c \in ids |-> IF c = first THEN Null ELSE "maybe"] }

\* ResponsePage.handleSubmit with an editing response.
UpdateParticipantResponseCall ==
    \E i \in DOMAIN events, name \in EditedNames, comment \in Comments :
        \E j \in DOMAIN events[i].participants, responses \in EditedResponses(events[i]) :
            /\ nOps < MaxOps
            /\ nOps' = nOps + 1
            /\ isLoading' = TRUE
            /\ error' = Null
            /\ procs' = Append(procs,
                    [NewCall("updateParticipantResponse", "updateResponse", events[i].id,
                             0, name, comment, responses)
                        EXCEPT !.responseId = events[i].participants[j].id])
            /\ UNCHANGED <<events, db, fetchSeq, lastFetched, newest, returned,
                           settled, tallyVars, routeVars, link>>

\* The answer to the update of the response row.
UpdateParticipantResponseRecvResponse ==
    \E k \in DOMAIN procs :
        /\ Replied(k, "updateResponse")
        /\ IF procs[k].reply.status = "error"
           THEN Rejects(k, "Failed to update response")
           ELSE /\ procs' = [procs EXCEPT ![k] = Await(@, "deleteAvailability")]
                /\ UNCHANGED <<isLoading, error, settled>>
        /\ UNCHANGED <<events, db, nOps, fetchSeq, lastFetched, newest, returned,
                       tallyVars, routeVars, link>>

\* The answer to the delete of the old availability rows.
UpdateParticipantResponseRecvDelete ==
    \E k \in DOMAIN procs :
        /\ Replied(k, "deleteAvailability")
        /\ IF procs[k].reply.status = "error"
           THEN /\ Rejects(k, "Failed to update response")
                /\ UNCHANGED fetchSeq
           ELSE IF AvailabilityRecords(procs[k].responseId, procs[k].responses) # {}
           THEN /\ procs' = [procs EXCEPT ![k] = Await(@, "insertAvailability")]
                /\ UNCHANGED <<isLoading, error, fetchSeq, settled>>
           ELSE /\ FetchEventWithin(k)
                /\ UNCHANGED settled
        /\ UNCHANGED <<events, db, nOps, lastFetched, newest, returned, tallyVars,
                       routeVars, link>>

\* The answer to the insert of the new availability rows.
UpdateParticipantResponseRecvAvailability ==
    \E k \in DOMAIN procs :
        /\ Replied(k, "insertAvailability")
        /\ procs[k].fn = "updateParticipantResponse"
        /\ IF procs[k].reply.status = "error"
           THEN /\ Rejects(k, "Failed to update response")
                /\ UNCHANGED fetchSeq
           ELSE /\ FetchEventWithin(k)
                /\ UNCHANGED settled
        /\ UNCHANGED <<events, db, nOps, lastFetched, newest, returned, tallyVars,
                       routeVars, link>>

\* ResponsePage.handleDelete, confirmed.
DeleteParticipantResponseCall ==
    \E i \in DOMAIN events :
        \E j \in DOMAIN events[i].participants :
            /\ nOps < MaxOps
            /\ nOps' = nOps + 1
            /\ isLoading' = TRUE
            /\ error' = Null
            /\ procs' = Append(procs,
                    [NewCall("deleteParticipantResponse", "deleteResponse", events[i].id,
                             0, "", "", << >>)
                        EXCEPT !.responseId = events[i].participants[j].id])
            /\ UNCHANGED <<events, db, fetchSeq, lastFetched, newest, returned,
                           settled, tallyVars, routeVars, link>>

\* DeleteParticipantResponseRecvResponse that also takes the participant out of the
\* cached event before the refresh.
DeleteParticipantResponseRecvResponseEvicts ==
    \E k \in DOMAIN procs :
        /\ Replied(k, "deleteResponse")
        /\ IF procs[k].reply.status = "error"
           THEN /\ Rejects(k, "Failed to delete response")
                /\ UNCHANGED <<fetchSeq, events>>
           ELSE /\ FetchEventWithin(k)
                /\ events' = [i \in DOMAIN events |->
                                 IF events[i].id = procs[k].id
                                 THEN [events[i] EXCEPT !.participants =
                                         SelectSeq(@, LAMBDA p : p.id # procs[k].responseId)]
                                 ELSE events[i]]
                /\ UNCHANGED settled
        /\ UNCHANGED <<db, nOps, lastFetched, newest, returned, tallyVars,
                       routeVars, link>>

\* The answer to the delete of the response row.
DeleteParticipantResponseRecvResponse ==
    \E k \in DOMAIN procs :
        /\ Replied(k, "deleteResponse")
        /\ IF procs[k].reply.status = "error"
           THEN /\ Rejects(k, "Failed to delete response")
                /\ UNCHANGED fetchSeq
           ELSE /\ FetchEventWithin(k)
                /\ UNCHANGED settled
        /\ UNCHANGED <<events, db, nOps, lastFetched, newest, returned, tallyVars,
                       routeVars, link>>

(***************************************************************************)
(* Addresses.  A string is the sequence of its pieces: the separators "#"  *)
(* and "/" each are a piece, and so is every longest run of other          *)
(* characters ("event", "respond", an identifier, a host name).            *)
(***************************************************************************)

\* A string value as a text: '' has no piece, an identifier is one piece.
Text(x) == IF x = "" THEN << >> ELSE <<x>>

\* s.startsWith(prefix)
StartsWith(s, prefix) ==
    /\ Len(s) >= Len(prefix)
    /\ SubSeq(s, 1, Len(prefix)) = prefix

\* s.replace(pattern, ''): the first occurrence of the pattern is removed.
ReplaceWithEmpty(s, pattern) ==
    LET at == {i \in 1..(Len(s) - Len(pattern) + 1) :
                  SubSeq(s, i, i + Len(pattern) - 1) = pattern}
    IN  IF at = {} THEN s
        ELSE LET i == CHOOSE a \in at : \A b \in at : a <= b
             IN  SubSeq(s, 1, i - 1) \o SubSeq(s, i + Len(pattern), Len(s))

\* s.split('/'): the texts between the slashes; ''.split('/') is [''].
RECURSIVE Split(_)
Split(s) ==
    LET at == {i \in DOMAIN s : s[i] = "/"}
    IN  IF at = {} THEN <<s>>
        ELSE LET i == CHOOSE a \in at : \A b \in at : a <= b
             IN  <<SubSeq(s, 1, i - 1)>> \o Split(SubSeq(s, i + 1, Len(s)))

\* A part of a split as a string value: the parts of the addresses considered hold
\* no "#", so a part is '' or one piece.
Str(part) == IF part = << >> THEN "" ELSE part[1]

\* '#/event/'
HashEventPrefix == <<"#", "/", "event", "/">>

\* The parse of the hash on mount found no event.
NoMatch == [match |-> FALSE, eventId |-> "", view |-> "home"]

\* ParseHash that splits the hash without removing '#/event/'.
ParseHashNoReplace(hash) ==
    IF StartsWith(hash, HashEventPrefix)
    THEN LET parts == Split(hash)
             eventId == Str(parts[1])
         IN  IF eventId # ""
             THEN [match |-> TRUE, eventId |-> eventId,
                   view |-> IF Len(parts) >= 2 /\ parts[2] = <<"respond">>
                            THEN "respond" ELSE "event"]
             ELSE NoMatch
    ELSE NoMatch

\* The hash parse of the mount effect: what it passes to setCurrentEventId and
\* setCurrentView, when it calls them.
ParseHash(hash) ==
    IF StartsWith(hash, HashEventPrefix)
    THEN LET parts == Split(ReplaceWithEmpty(hash, HashEventPrefix))
             eventId == Str(parts[1])
         IN  IF eventId # ""
             THEN [match |-> TRUE, eventId |-> eventId,
                   view |-> IF Len(parts) >= 2 /\ parts[2] = <<"respond">>
                            THEN "respond" ELSE "event"]
             ELSE NoMatch
    ELSE NoMatch

\* A promise, as the value of a variable.
Promise == "a Promise"

\* `${x}` for an identifier or a promise.
Template(x) == IF x = Promise THEN "[object Promise]" ELSE x

\* if (x): null and '' are falsy, a promise is truthy.
Truthy(x) == x # Null /\ x # ""

\* The effect that updates the URL when the view changes: the hash after
\* window.history.replaceState, given the hash before it.
UpdateUrl(hash, eventId, view) ==
    IF Truthy(eventId) /\ view = "event"
    THEN HashEventPrefix \o Text(Template(eventId))
    ELSE IF Truthy(eventId) /\ view = "respond"
    THEN HashEventPrefix \o Text(Template(eventId)) \o <<"/", "respond">>
    ELSE IF view = "home" THEN << >>
    ELSE hash

\* getShareableUrl(eventId), with baseUrl = origin + pathname.
GetShareableUrl(baseUrl, eventId) ==
    baseUrl \o HashEventPrefix \o Text(Template(eventId))

\* window.location.hash of a page opened at url: the "#" and what follows it, or ''
\* when nothing follows.
HashOf(url) ==
    LET at == {i \in DOMAIN url : url[i] = "#"}
    IN  IF at = {} THEN << >>
        ELSE LET i == CHOOSE a \in at : \A b \in at : a <= b
             IN  IF i = Len(url) THEN << >> ELSE SubSeq(url, i, Len(url))

\* What the shortening service (tinyurl.com/api-create.php) can do with a request:
\* the request fails, it answers a status that is not ok, it answers ok with the
\* short address as its text, or the text of an ok answer cannot be read.
ShortenerOutcomes ==
    { [kind |-> "fetchThrows", ok |-> FALSE, text |-> << >>],
      [kind |-> "status", ok |-> FALSE, text |-> <<"Error">>],
      [kind |-> "status", ok |-> TRUE,
       text |-> <<"https:", "/", "/", "tinyurl.com", "/", "abc">>],
      [kind |-> "textThrows", ok |-> TRUE, text |-> << >>] }

\* ShortenUrl without the response.ok test.
ShortenUrlNoStatusCheck(longUrl, outcome) ==
    IF outcome.kind = "fetchThrows" THEN [value |-> longUrl, threw |-> FALSE]
    ELSE IF outcome.kind = "textThrows" THEN [value |-> longUrl, threw |-> FALSE]
    ELSE [value |-> outcome.text, threw |-> FALSE]

\* shortenUrl(longUrl): what the promise resolves to, and whether it rejects.
ShortenUrl(longUrl, outcome) ==
    IF outcome.kind = "fetchThrows"
    THEN [value |-> longUrl, threw |-> FALSE]              \* catch, then return longUrl
    ELSE IF outcome.ok
    THEN IF outcome.kind = "textThrows"
         THEN [value |-> longUrl, threw |-> FALSE]         \* catch, then return longUrl
         ELSE [value |-> outcome.text, threw |-> FALSE]    \* return await response.text()
    ELSE [value |-> longUrl, threw |-> FALSE]              \* return longUrl

(***************************************************************************)
(* AppContext.tsx: getEvent, as the pages call it when they render.        *)
(***************************************************************************)

\* GetEvent that marks the provider as loading when the event is not cached.
GetEventOrFetch(id) ==
    IF Find(events, id) = NoEvent /\ ~isLoading
    THEN /\ isLoading' = TRUE
         /\ Render(NoEvent)
    ELSE /\ Render(Find(events, id))
         /\ UNCHANGED isLoading

\* const event = currentEventId ? getEvent(currentEventId) : undefined, and the
\* render of the page with it.
GetEvent(id) ==
    /\ Render(Find(events, id))
    /\ UNCHANGED isLoading

RenderEventPage ==
    \E id \in EventIds :
        /\ GetEvent(id)
        /\ UNCHANGED <<events, error, db, procs, nOps, fetchSeq, lastFetched,
                       newest, returned, settled, routeVars, link>>

\* The base addresses (origin + pathname) the application is served at.
BaseUrls ==
    { <<"https:", "/", "/", "schedule.example", "/">>,
      <<"https:", "/", "/", "user.github.io", "/", "schedule_app", "/">>,
      <<"http:", "/", "/", "localhost:5173", "/">> }

\* The provider before its mount effects have run: the useState initial values.
ProviderInit ==
    /\ mounted = FALSE
    /\ currentEventId = Null
    /\ currentView = "home"
    /\ editingResponseId = NoResponseId

\* No call of a link function is considered.
NoLink ==
    [stage |-> "idle", baseUrl |-> << >>, eventId |-> "", view |-> "home",
     outcome |-> [kind |-> "fetchThrows", ok |-> FALSE, text |-> << >>],
     url |-> << >>, hash |-> << >>, parsed |-> NoMatch,
     short |-> [value |-> << >>, threw |-> FALSE]]

\* The provider as the operations of the context find it when the pages are left
\* aside: constructed at the plain address.
RouteIdle ==
    /\ ProviderInit
    /\ isSubmitting = FALSE
    /\ isCreating = FALSE
    /\ location = [baseUrl |-> <<"https:", "/", "/", "schedule.example", "/">>,
                   hash |-> << >>]
    /\ link = NoLink

Init ==
    /\ AppInit
    /\ RouteIdle
    /\ event = NoEvent
    /\ summary = Summary(event)
    /\ bestDateIds = BestDateIds(event, summary)

Next ==
    \/ FetchEventCall
    \/ FetchEventRecvEvent
    \/ FetchEventRecvDateCandidates
    \/ FetchEventRecvResponses
    \/ AddParticipantResponseCall
    \/ AddParticipantResponseRecvResponse
    \/ AddParticipantResponseRecvAvailability
    \/ NotificationRelayAnswers
    \/ SendEmailNotificationEnds
    \/ StoreSelectEvent
    \/ StoreSelectDateCandidates
    \/ StoreSelectResponses
    \/ StoreInsertResponse
    \/ StoreInsertAvailability
    \/ StoreFail
    \/ RenderEventPage

Spec == Init /\ [][Next]_vars

(***************************************************************************)
(* The tally specification: the page is rendered with an event, and again  *)
(* each time the event it renders has changed.                             *)
(***************************************************************************)

TallyInit ==
    /\ event \in { [dateCandidates |-> dcs, participants |-> << >>] :
                     dcs \in TallyCandidateLists }
    /\ summary = Summary(event)
    /\ bestDateIds = BestDateIds(event, summary)
    /\ AppInit
    /\ RouteIdle

\* The rendered event has one more participant.
TallyAddParticipant ==
    /\ UNCHANGED <<appVars, routeVars, link>>
    /\ Len(event.participants) < MaxParticipants
    /\ \E responses \in TallyResponseMaps :
         Render([event EXCEPT !.participants = Append(@, [responses |-> responses])])

\* m with key k set to v, or with key k removed when v is "absent".
WithEntry(m, k, v) ==
    IF v = "absent" THEN [d \in DOMAIN m \ {k} |-> m[d]]
    ELSE [d \in DOMAIN m \cup {k} |-> IF d = k THEN v ELSE m[d]]

\* The rendered event has one value of one participant changed.
TallySetAvailability ==
    /\ UNCHANGED <<appVars, routeVars, link>>
    /\ \E i \in DOMAIN event.participants, dateId \in TallyKeys,
          availability \in Availability \cup {"absent"} :
           LET responses == WithEntry(event.participants[i].responses, dateId, availability)
           IN  /\ responses # event.participants[i].responses
               /\ Render([event EXCEPT !.participants[i].responses = responses])

TallyNext == TallyAddParticipant \/ TallySetAvailability

SpecTally == TallyInit /\ [][TallyNext]_vars

(***************************************************************************)
(* The concrete scenario of the specification: event "Team Sync" with      *)
(* candidates A and B, answered by participants who rate every candidate.  *)
(***************************************************************************)

\* Most participants of the Team Sync event.
MaxTeam == 3

TeamSync ==
    [dateCandidates |-> << [id |-> "A", datetime |-> "Mon 10am"],
                           [id |-> "B", datetime |-> "Tue 2pm"] >>,
     participants |-> << >>]

\* The response maps that rate both candidates.
TeamResponseMaps == [{"A", "B"} -> {"available", "maybe", "unavailable"}]

TeamSyncInit ==
    /\ event = TeamSync
    /\ summary = Summary(event)
    /\ bestDateIds = BestDateIds(event, summary)
    /\ AppInit
    /\ RouteIdle

\* One more participant has answered, and the page is rendered again.
TeamSyncAddParticipant ==
    /\ UNCHANGED <<appVars, routeVars, link>>
    /\ Len(event.participants) < MaxTeam
    /\ \E responses \in TeamResponseMaps :
         Render([event EXCEPT !.participants = Append(@, [responses |-> responses])])

SpecTeamSync == TeamSyncInit /\ [][TeamSyncAddParticipant]_vars

(***************************************************************************)
(* The mutating operations: the event page of e1 has loaded an event that  *)
(* holds a response, and the operations of the context are called for the  *)
(* cached events and their responses, interleaved with the store.          *)
(***************************************************************************)

\* The store with a response to e1, given earlier.
StoredDb ==
    [InitDb EXCEPT
        !.participant_responses =
            {[id |-> 1, event_id |-> "e1", name |-> "Ann", comment |-> "", created_at |-> 1]},
        !.response_availability =
            {[response_id |-> 1, date_candidate_id |-> "d1", availability |-> "available"],
             [response_id |-> 1, date_candidate_id |-> "d2", availability |-> "unavailable"]},
        !.clock = 1]

\* The event fetchEvent(id) assembles when its three fetches are served by store d.
Assembled(d, id) ==
    AssembleEvent(SelectEvent(d, id).data, SelectDateCandidates(d, id).data,
                  SelectResponses(d, id).data)

\* The state after fetchEvent('e1'), the first operation, has completed.
WritesInit ==
    /\ events = <<Assembled(StoredDb, "e1")>>
    /\ isLoading = FALSE
    /\ error = Null
    /\ db = StoredDb
    /\ procs = << >>
    /\ nOps = 1
    /\ fetchSeq = 1
    /\ lastFetched = [id \in AllEventIds |->
                         IF id = "e1" THEN [event |-> Assembled(StoredDb, "e1"), stamp |-> 1]
                         ELSE [event |-> NoEvent, stamp |-> 0]]
    /\ newest = lastFetched
    /\ returned = [id |-> "e1", value |-> Assembled(StoredDb, "e1"), why |-> "ok"]
    /\ settled = [fn |-> "none", outcome |-> "none"]
    /\ RouteIdle
    /\ event = NoEvent
    /\ summary = Summary(event)
    /\ bestDateIds = BestDateIds(event, summary)

WritesNext ==
    \/ CreateEventCall
    \/ CreateEventRecvEvent
    \/ CreateEventRecvDateCandidates
    \/ AddParticipantResponseCall
    \/ AddParticipantResponseRecvResponse
    \/ AddParticipantResponseRecvAvailability
    \/ NotificationRelayAnswers
    \/ SendEmailNotificationEnds
    \/ UpdateParticipantResponseCall
    \/ UpdateParticipantResponseRecvResponse
    \/ UpdateParticipantResponseRecvDelete
    \/ UpdateParticipantResponseRecvAvailability
    \/ DeleteParticipantResponseCall
    \/ DeleteParticipantResponseRecvResponse
    \/ FetchEventCall
    \/ FetchEventRecvEvent
    \/ FetchEventRecvDateCandidates
    \/ FetchEventRecvResponses
    \/ StoreSelectEvent
    \/ StoreSelectDateCandidates
    \/ StoreSelectResponses
    \/ StoreInsertEvent
    \/ StoreInsertDateCandidates
    \/ StoreInsertResponse
    \/ StoreInsertAvailability
    \/ StoreUpdateResponse
    \/ StoreDeleteAvailability
    \/ StoreDeleteResponse
    \/ StoreFail

SpecWrites == WritesInit /\ [][WritesNext]_vars

(***************************************************************************)
(* The link functions on their own: getShareableUrl, the URL update, the   *)
(* hash parse and shortenUrl, applied to every address within the bounds.  *)
(***************************************************************************)

\* The identifiers a link is made for: identifiers of the store, and identifiers
\* that read like a piece of the path.
LinkIds == EventIds \cup {"e3", "event", "respond"}

LinkInit ==
    /\ AppInit
    /\ ProviderInit
    /\ isSubmitting = FALSE
    /\ isCreating = FALSE
    /\ location = [baseUrl |-> <<"https:", "/", "/", "schedule.example", "/">>,
                   hash |-> << >>]
    /\ event = NoEvent
    /\ summary = Summary(event)
    /\ bestDateIds = BestDateIds(event, summary)
    /\ link \in { [NoLink EXCEPT !.stage = "input", !.baseUrl = b, !.eventId = id,
                                  !.view = v, !.outcome = o] :
                     b \in BaseUrls, id \in LinkIds, v \in {"event", "respond"},
                     o \in ShortenerOutcomes }

\* EventPage: shareUrl = getShareableUrl(id), and the hash of a page opened there.
LinkGetShareableUrl ==
    /\ link.stage = "input"
    /\ link' = [link EXCEPT !.stage = "shared",
                            !.url = GetShareableUrl(link.baseUrl, link.eventId),
                            !.hash = HashOf(GetShareableUrl(link.baseUrl, link.eventId))]
    /\ UNCHANGED <<appVars, tallyVars, routeVars>>

\* The URL update for event id in view v.
LinkUpdateUrl ==
    /\ link.stage = "input"
    /\ link' = [link EXCEPT !.stage = "routed",
                            !.hash = UpdateUrl(<< >>, link.eventId, link.view)]
    /\ UNCHANGED <<appVars, tallyVars, routeVars>>

\* The hash parse of a page loaded with the hash.
LinkParseHash ==
    /\ link.stage \in {"shared", "routed"}
    /\ link' = [link EXCEPT !.stage = IF link.stage = "shared" THEN "sharedParsed"
                                      ELSE "routedParsed",
                            !.parsed = ParseHash(link.hash)]
    /\ UNCHANGED <<appVars, tallyVars, routeVars>>

\* shortenUrl(shareUrl), with what the service does.
LinkShortenUrl ==
    /\ link.stage = "shared"
    /\ link' = [link EXCEPT !.stage = "shortened",
                            !.short = ShortenUrl(link.url, link.outcome)]
    /\ UNCHANGED <<appVars, tallyVars, routeVars>>

LinkNext ==
    \/ LinkGetShareableUrl
    \/ LinkUpdateUrl
    \/ LinkParseHash
    \/ LinkShortenUrl

SpecLink == LinkInit /\ [][LinkNext]_vars

(***************************************************************************)
(* Claims about the tally.                                                 *)
(***************************************************************************)

CandidateIds(ev) == {ev.dateCandidates[i].id : i \in DOMAIN ev.dateCandidates}

\* The participants of ev whose response map gives candidate c the value v.
Giving(ev, c, v) ==
    {i \in DOMAIN ev.participants :
        c \in DOMAIN ev.participants[i].responses /\ ev.participants[i].responses[c] = v}

SeqRange(s) == {s[i] : i \in DOMAIN s}

\* C1: every candidate c of the rendered event has a tally entry whose available,
\* maybe and unavailable counts are the numbers of participants whose response map
\* gives c that value, and whose score is 2*available + 1*maybe + 0*unavailable.
C1_TallyCounts ==
    \A c \in CandidateIds(event) :
        /\ c \in DOMAIN summary
        /\ summary[c].available = Cardinality(Giving(event, c, "available"))
        /\ summary[c].maybe = Cardinality(Giving(event, c, "maybe"))
        /\ summary[c].unavailable = Cardinality(Giving(event, c, "unavailable"))
        /\ summary[c].score = 2 * summary[c].available + 1 * summary[c].maybe
                                + 0 * summary[c].unavailable

C1_Witness ==
    /\ Len(event.participants) = 2
    /\ "A" \in CandidateIds(event)
    /\ summary["A"].available = 1
    /\ summary["A"].maybe = 1

\* C2: the best-slot set is empty when the maximal score over the candidates is 0
\* (so with no participant, and when every response is 'unavailable'); otherwise it
\* is exactly the set of the candidates whose score equals the maximum, ties included.
C2_BestSlots ==
    LET scores == {summary[c].score : c \in CandidateIds(event)}
        isMax(m) == m \in scores /\ \A x \in scores : x <= m
    IN  /\ Len(bestDateIds) = Cardinality(SeqRange(bestDateIds))
        /\ Len(event.participants) = 0 => bestDateIds = << >>
        /\ (\A i \in DOMAIN event.participants :
               \A c \in CandidateIds(event) :
                   /\ c \in DOMAIN event.participants[i].responses
                   /\ event.participants[i].responses[c] = "unavailable")
              => bestDateIds = << >>
        /\ isMax(0) => bestDateIds = << >>
        /\ \A m \in scores :
               isMax(m) /\ m # 0 =>
                   SeqRange(bestDateIds) = {c \in CandidateIds(event) : summary[c].score = m}

C2_Witness ==
    /\ bestDateIds = <<"A", "B">>
    /\ summary["A"].score = 3

\* ev without the availability keys that are no candidate of ev.
WithoutOrphans(ev) ==
    [ev EXCEPT !.participants =
        [i \in DOMAIN ev.participants |->
            [ev.participants[i] EXCEPT !.responses =
                [c \in DOMAIN @ \cap CandidateIds(ev) |-> @[c]]]]]

\* C3: the tally has exactly one entry per candidate and no other; a candidate in no
\* response map has all counts and the score 0; a key of a response that is no
\* candidate of the event creates no entry and changes no count, score or best slot.
C3_OneEntryPerCandidate ==
    /\ DOMAIN summary = CandidateIds(event)
    /\ \A c \in CandidateIds(event) :
           (\A i \in DOMAIN event.participants :
               c \notin DOMAIN event.participants[i].responses)
             => summary[c] = [available |-> 0, maybe |-> 0, unavailable |-> 0, score |-> 0]
    /\ summary = Summary(WithoutOrphans(event))
    /\ bestDateIds = BestDateIds(WithoutOrphans(event), Summary(WithoutOrphans(event)))

C3_Witness ==
    /\ CandidateIds(event) = {"A"}
    /\ Len(event.participants) = 2
    /\ DOMAIN event.participants[1].responses = {"B"}
    /\ event.participants[1].responses["B"] = "available"
    /\ DOMAIN event.participants[2].responses = {"A", "B"}
    /\ summary["A"].score = 1

\* C4: for every candidate c, available + maybe + unavailable never exceeds the number
\* of participants whose response for c is available, maybe or unavailable; an absent
\* or null value adds to no count.
C4_CountsBounded ==
    \A c \in CandidateIds(event) :
        summary[c].available + summary[c].maybe + summary[c].unavailable
          <= Cardinality(Giving(event, c, "available") \cup Giving(event, c, "maybe")
                           \cup Giving(event, c, "unavailable"))

C4_Witness ==
    /\ "A" \in CandidateIds(event)
    /\ Len(event.participants) = 2
    /\ Giving(event, "A", Null) = {1}
    /\ Giving(event, "A", "unavailable") = {2}
    /\ summary["A"].unavailable = 1

\* The value participant i of ev gives key c: "absent" when the map has no such key.
ValueOf(ev, i, c) ==
    IF c \in DOMAIN ev.participants[i].responses
    THEN ev.participants[i].responses[c] ELSE "absent"

NoOpinion == {"unavailable", "absent", Null}

\* C5: a step that changes one participant's value for candidate c from
\* unavailable/absent to maybe never lowers the score of c; a change to available
\* raises it by exactly 2 from unavailable/absent and by exactly 1 from maybe; the
\* scores of the other candidates are unchanged.
C5_ScoreMonotone ==
    [][\A i \in DOMAIN event.participants, c \in CandidateIds(event),
         v \in {"maybe", "available"} :
          (/\ ValueOf(event, i, c) # v
           /\ event' = [event EXCEPT !.participants[i].responses = WithEntry(@, c, v)])
          => /\ (v = "maybe" /\ ValueOf(event, i, c) \in NoOpinion)
                  => summary'[c].score >= summary[c].score
             /\ (v = "available" /\ ValueOf(event, i, c) \in NoOpinion)
                  => summary'[c].score = summary[c].score + 2
             /\ (v = "available" /\ ValueOf(event, i, c) = "maybe")
                  => summary'[c].score = summary[c].score + 1
             /\ \A d \in CandidateIds(event) \ {c} :
                  summary'[d].score = summary[d].score]_vars

C5_Witness ==
    /\ CandidateIds(event) = {"A", "B"}
    /\ Len(event.participants) = 2
    /\ ValueOf(event, 1, "A") = "available"
    /\ ValueOf(event, 2, "A") = "maybe"
    /\ ValueOf(event, 1, "B") = "absent"
    /\ summary["A"].score = 3
    /\ summary["B"].score = 0

Alice == [A |-> "available", B |-> "maybe"]
Bob == [A |-> "maybe", B |-> "unavailable"]
Cara == [A |-> "unavailable", B |-> "available"]

\* C6: for Team Sync with Alice and Bob the tally is A = {1, 1, 0, score 3},
\* B = {0, 1, 1, score 1} and the best-slot set is {A}; with Cara added the scores are
\* A = 3 and B = 3 and the best-slot set is {A, B}.
C6_TeamSyncScenario ==
    /\ event.participants = << [responses |-> Alice], [responses |-> Bob] >>
         => /\ summary = [A |-> [available |-> 1, maybe |-> 1, unavailable |-> 0, score |-> 3],
                          B |-> [available |-> 0, maybe |-> 1, unavailable |-> 1, score |-> 1]]
            /\ SeqRange(bestDateIds) = {"A"}
    /\ event.participants = << [responses |-> Alice], [responses |-> Bob], [responses |-> Cara] >>
         => /\ summary["A"].score = 3
            /\ summary["B"].score = 3
            /\ SeqRange(bestDateIds) = {"A", "B"}

C6_Witness ==
    /\ event.dateCandidates = TeamSync.dateCandidates
    /\ event.participants = << [responses |-> Alice], [responses |-> Bob], [responses |-> Cara] >>
    /\ Len(bestDateIds) = 2

(***************************************************************************)
(* Claims about the cache.                                                 *)
(***************************************************************************)

\* The positions of the cache that hold an event with identifier id.
EntriesOf(cache, id) == {i \in DOMAIN cache : cache[i].id = id}

\* This step is the successful completion of a fetch of id.
FetchCompletes(id) == lastFetched'[id] # lastFetched[id]

\* C7: the cache holds at most one entry per identifier, and the entry of X is the
\* event assembled by the most recently completed successful fetch of X; such a
\* completion replaces the entry of X where it is, or appends it when X is new, and
\* leaves the entries of the other identifiers as they are.
C7_CacheUpsert ==
    /\ [](\A id \in EventIds :
            /\ Cardinality(EntriesOf(events, id)) <= 1
            /\ lastFetched[id].stamp = 0 => EntriesOf(events, id) = {}
            /\ lastFetched[id].stamp # 0 =>
                 \E i \in DOMAIN events :
                     events[i].id = id /\ events[i] = lastFetched[id].event)
    /\ [][\A id \in EventIds :
            FetchCompletes(id) =>
                /\ EntriesOf(events, id) # {} =>
                     /\ Len(events') = Len(events)
                     /\ \A i \in DOMAIN events :
                          events'[i] = IF i \in EntriesOf(events, id)
                                       THEN lastFetched'[id].event ELSE events[i]
                /\ EntriesOf(events, id) = {} =>
                     /\ Len(events') = Len(events) + 1
                     /\ events'[Len(events')] = lastFetched'[id].event
                     /\ \A i \in DOMAIN events : events'[i] = events[i]]_vars

C7_Witness ==
    /\ Len(events) = 2
    /\ events[1].id = "e1"
    /\ events[2].id = "e2"
    /\ Len(events[1].participants) = 1
    /\ lastFetched["e1"].stamp = 3
    /\ procs = << >>

\* C8: getEvent(id) returns the cached event with that identifier, or nothing when the
\* identifier was never successfully fetched; the read starts no fetch and changes
\* neither the cache, the loading flag nor the error slot.
C8_GetEventReadOnly ==
    /\ [](\A id \in EventIds :
            /\ lastFetched[id].stamp = 0 => Find(events, id) = NoEvent
            /\ lastFetched[id].stamp # 0 =>
                 /\ Find(events, id) # NoEvent
                 /\ Find(events, id).id = id
                 /\ \E i \in DOMAIN events : events[i] = Find(events, id))
    /\ [][event' # event =>
            /\ \E id \in EventIds :
                 event' = IF EntriesOf(events, id) = {} THEN NoEvent
                          ELSE events[CHOOSE i \in EntriesOf(events, id) : TRUE]
            /\ UNCHANGED <<events, isLoading, error, procs, nOps, fetchSeq, db>>]_vars

C8_Witness ==
    /\ event # NoEvent
    /\ event.id = "e1"
    /\ Len(event.participants) = 1
    /\ event = Find(events, "e1")
    /\ isLoading

\* The calls of procs other than call k, in order.
Others(k) == RemoveAt(procs, k)

\* C9: overlapping fetches of one event are neither cancelled nor deduplicated, and
\* the cache entry is the result of the fetch that resolved last: a fetch that
\* completes overwrites the entry also when a later-started fetch has completed
\* before it, and leaves the other calls in progress as they are.
C9_LastResolvedWins ==
    [][/\ fetchSeq' # fetchSeq =>
            /\ fetchSeq' = fetchSeq + 1
            /\ \E k \in DOMAIN procs' :
                 /\ procs'[k].stamp = fetchSeq'
                 /\ procs'[k].pc = "selectEvent"
                 /\ procs'[k].phase = "sent"
                 /\ RemoveAt(procs', k) = IF k \in DOMAIN procs THEN Others(k) ELSE procs
       /\ \A id \in EventIds :
            FetchCompletes(id) =>
                \E k \in DOMAIN procs :
                    /\ procs[k].id = id
                    /\ procs[k].stamp = lastFetched'[id].stamp
                    /\ Find(events', id) = AssembleEvent(procs[k].dbEvent,
                                               procs[k].dateCandidates, procs[k].reply.data)
                    /\ \/ procs' = Others(k)
                       \/ /\ Len(procs') = Len(procs)
                          /\ RemoveAt(procs', k) = Others(k)]_vars

\* The event a fetch of id served entirely by the store as it is now would assemble.
Current(id) ==
    AssembleEvent(SelectEvent(db, id).data, SelectDateCandidates(db, id).data,
                  SelectResponses(db, id).data)

\* A fetch that started earlier and read older data resolved after a later-started
\* fetch that read the current data: the cache holds the older data, with no call
\* left in progress to repair it.
C9_Witness ==
    /\ procs = << >>
    /\ lastFetched["e1"].stamp # 0
    /\ lastFetched["e1"].stamp < newest["e1"].stamp
    /\ newest["e1"].event = Current("e1")
    /\ Find(events, "e1") = lastFetched["e1"].event
    /\ Find(events, "e1") # Current("e1")

\* C10: fetchEvent of an identifier that is not in the store returns null, does not
\* set the error slot and leaves the cache unchanged, while a fetch that fails for
\* another reason sets the error slot: the two outcomes differ.
C10_NotFoundIsNotAnError ==
    [][\A k \in DOMAIN procs :
          /\ (Replied(k, "selectEvent") /\ procs[k].reply.status = "PGRST116"
                /\ procs' = Others(k))
               => /\ procs[k].id \notin DOMAIN db.events
                  /\ returned' = [id |-> procs[k].id, value |-> NullEvent, why |-> "notFound"]
                  /\ error' = error
                  /\ events' = events
          /\ (procs[k].phase = "replied" /\ procs[k].reply.status = "error"
                /\ procs[k].fn = "fetchEvent" /\ procs' = Others(k))
               => /\ returned'.value = NullEvent
                  /\ returned'.why = "error"
                  /\ error' # Null
                  /\ events' = events]_vars

C10_Witness ==
    /\ returned = [id |-> "e0", value |-> NullEvent, why |-> "notFound"]
    /\ error = Null
    /\ ~isLoading
    /\ procs = << >>
    /\ Len(events) = 1

(***************************************************************************)
(* Claims about failures.                                                  *)
(***************************************************************************)

FetchCalls == {"selectEvent", "selectDateCandidates", "selectResponses"}

\* Call k awaited one of the three fetches of fetchEvent, which failed for a reason
\* other than not-found.
FetchFailed(k) ==
    /\ procs[k].pc \in FetchCalls
    /\ procs[k].phase = "replied"
    /\ procs[k].reply.status = "error"

\* C11: when one of the three fetches of fetchEvent (header, date candidates,
\* responses) fails for a reason other than not-found, fetchEvent sets the error slot
\* to a message, leaves the cache as it is (no partly assembled event is stored) and
\* returns null without issuing any further store call: there is no retry.
C11_FetchFailure ==
    [][\A k \in DOMAIN procs :
          FetchFailed(k) =>
              /\ Len(procs') >= Len(procs) => procs'[k] = procs[k]
              /\ (Len(procs') < Len(procs) /\ procs' = Others(k)) =>
                    /\ error' \in {"store failure", "Failed to fetch event"}
                    /\ events' = events
                    /\ returned' = [id |-> procs[k].id, value |-> NullEvent, why |-> "error"]
                    /\ fetchSeq' = fetchSeq
                    /\ db' = db]_vars

\* The fetch of the responses failed after the header and the candidates had been
\* read: nothing of the event is cached.
C11_Witness ==
    /\ returned = [id |-> "e1", value |-> NullEvent, why |-> "error"]
    /\ error = "Failed to fetch event"
    /\ Find(events, "e1") = NoEvent
    /\ Len(events) = 1
    /\ procs = << >>
    /\ fetchSeq = 3

\* Call k awaits the notification, or has its outcome.
Notifying(k) == procs[k].pc = "sendEmailNotification"

\* C14: whatever the notification call does (a status that is not ok, or a throw), the
\* addParticipantResponse that awaited it resolves and the error slot stays as it is;
\* the call is made once, after the refresh returned an event with an organizer
\* contact, and is never made again.
C14_NotificationFailureSwallowed ==
    [][\A k \in DOMAIN procs :
          /\ (Notifying(k) /\ Len(procs') >= Len(procs)) =>
                \/ procs'[k] = procs[k]
                \/ /\ procs[k].phase = "sent"
                   /\ procs'[k] = [procs[k] EXCEPT !.phase = "replied",
                                                   !.reply = procs'[k].reply]
                   /\ error' = error
          /\ (Notifying(k) /\ Len(procs') < Len(procs) /\ procs' = Others(k)) =>
                /\ procs[k].phase = "replied"
                /\ settled' = [fn |-> "addParticipantResponse", outcome |-> "resolved"]
                /\ error' = error
                /\ events' = events
          /\ (~Notifying(k) /\ Len(procs') = Len(procs) /\ procs'[k].pc = "sendEmailNotification") =>
                /\ procs[k].fn = "addParticipantResponse"
                /\ Replied(k, "selectResponses")
                /\ HasOrganizerEmail(returned'.value)
                /\ procs'[k].phase = "sent"]_vars

\* The notification of an added response threw, and the operation is about to
\* resolve with the error slot empty.
C14_Witness ==
    \E k \in DOMAIN procs :
        /\ Replied(k, "sendEmailNotification")
        /\ procs[k].reply.status = "threw"
        /\ error = Null
        /\ \E r \in db.participant_responses : r.event_id = procs[k].id

\* C15: the notification call never blocks addParticipantResponse: once its store
\* writes and its refresh are done the operation has completed, whether the
\* notification has succeeded, failed or not completed yet.
C15_NotificationNeverBlocks ==
    \A k \in DOMAIN procs :
        ~(procs[k].fn = "addParticipantResponse" /\ Notifying(k))

(***************************************************************************)
(* Claims about links.                                                     *)
(***************************************************************************)

\* C16: shortenUrl(url) resolves to the original url whenever the request to the
\* shortening service throws or is answered with a status that is not ok, and it
\* never rejects.
C16_ShortenFallsBack ==
    link.stage = "shortened" =>
        /\ ~link.short.threw
        /\ (link.outcome.kind # "status" \/ ~link.outcome.ok) => link.short.value = link.url
        /\ (link.outcome.kind = "status" /\ link.outcome.ok) =>
               link.short.value = link.outcome.text

C16_Witness ==
    /\ link.stage = "shortened"
    /\ link.outcome.kind = "status"
    /\ ~link.outcome.ok
    /\ link.short.value = <<"http:", "/", "/", "localhost:5173", "/", "#", "/", "event", "/", "e1">>

\* C17: for every event identifier id and view v of event and respond, the hash parse
\* of the fragment the URL update produces for (id, v) gives currentEventId = id and
\* currentView = v, and the hash of the address getShareableUrl(id) parses to
\* (id, event).
C17_LinkRoundTrip ==
    /\ link.stage = "routed" =>
          link.hash = IF link.view = "event"
                      THEN <<"#", "/", "event", "/", link.eventId>>
                      ELSE <<"#", "/", "event", "/", link.eventId, "/", "respond">>
    /\ link.stage = "routedParsed" =>
          link.parsed = [match |-> TRUE, eventId |-> link.eventId, view |-> link.view]
    /\ link.stage = "sharedParsed" =>
          link.parsed = [match |-> TRUE, eventId |-> link.eventId, view |-> "event"]

C17_Witness ==
    /\ link.stage = "routedParsed"
    /\ link.hash = <<"#", "/", "event", "/", "respond", "/", "respond">>
    /\ link.parsed.eventId = "respond"
    /\ link.parsed.view = "respond"

(***************************************************************************)
(* The pages.  App.tsx renders HomePage, CreateEventPage, EventPage or     *)
(* ResponsePage by currentView, under the Header.  A step is the mount of  *)
(* the application or one handler of a page, together with the renders and *)
(* effects it causes: the effect that updates the URL, and the mount effect*)
(* of EventPage.  A handler that awaits an operation of the context        *)
(* continues when the operation has settled (HandlerContinues).            *)
(***************************************************************************)

\* The hashes the application is opened at: none, an event, its response form, an
\* event the store does not have, and '#/event/' without an identifier.
InitialHashes ==
    { << >>,
      HashEventPrefix \o <<"e1">>,
      HashEventPrefix \o <<"e1", "/", "respond">>,
      HashEventPrefix \o <<"e0">>,
      HashEventPrefix }

\* No continuation of a handler is queued: the browser takes the next event.
NoMicrotask == \A k \in DOMAIN procs : procs[k].pc # "settled"

\* const event = currentEventId ? getEvent(currentEventId) : undefined
ShownEvent ==
    IF Truthy(currentEventId) THEN Find(events, currentEventId) ELSE NoEvent

\* editingResponseId ? event?.participants.find(p => p.id === editingResponseId)
\*                   : undefined, as the set of the indexes found.
EditingResponse ==
    IF editingResponseId = NoResponseId \/ ShownEvent = NoEvent THEN {}
    ELSE {i \in DOMAIN ShownEvent.participants :
            /\ ShownEvent.participants[i].id = editingResponseId
            /\ \A j \in DOMAIN ShownEvent.participants :
                  ShownEvent.participants[j].id = editingResponseId => i <= j}

\* fetchEvent(id) as a page calls it: nothing awaits what it returns.
FetchStarted(id, stamp) == NewCall("fetchEvent", "selectEvent", id, stamp, "", "", << >>)

\* ResponsePage is unmounted: what the continuations of its handlers set in its
\* state is lost.
Detach(ps) == [i \in DOMAIN ps |-> [ps[i] EXCEPT !.page = FALSE]]

\* The mount effect of EventPage, were it to skip an event that is being fetched.
EventPageFetchOnce(id, view, stamp) ==
    IF /\ view = "event" /\ Truthy(id) /\ (currentView # "event" \/ currentEventId # id)
       /\ \A k \in DOMAIN procs : ~(procs[k].fn = "fetchEvent" /\ procs[k].id = id)
    THEN <<FetchStarted(id, stamp)>>
    ELSE << >>

\* The mount effect of EventPage (it runs when EventPage mounts and when
\* currentEventId changes): fetchEvent(currentEventId) when the identifier is truthy.
EventPageFetch(id, view, stamp) ==
    IF view = "event" /\ Truthy(id) /\ (currentView # "event" \/ currentEventId # id)
    THEN <<FetchStarted(id, stamp)>>
    ELSE << >>

\* The provider state becomes (id, view) while ps are the calls in progress, f of
\* them fetches started in this step: the page of the view is rendered (a page that
\* is mounted starts from its initial state), the URL effect and the mount effect of
\* EventPage run.
Shows(id, view, ps, f) ==
    LET fetches == EventPageFetch(id, view, fetchSeq + f + 1)
        started == f + Len(fetches)
    IN  /\ nOps + started <= MaxOps
        /\ nOps' = nOps + started
        /\ fetchSeq' = fetchSeq + started
        /\ procs' = (IF currentView = "respond" /\ view # "respond"
                     THEN Detach(ps) ELSE ps) \o fetches
        /\ IF fetches # << >>
           THEN isLoading' = TRUE /\ error' = Null
           ELSE UNCHANGED <<isLoading, error>>
        /\ currentEventId' = id
        /\ currentView' = view
        /\ location' = [location EXCEPT !.hash = UpdateUrl(location.hash, id, view)]
        /\ isSubmitting' = IF view = "respond" /\ currentView = "respond"
                           THEN isSubmitting ELSE FALSE
        /\ isCreating' = IF view = "create" /\ currentView = "create"
                         THEN isCreating ELSE FALSE
        /\ UNCHANGED <<events, db, lastFetched, newest, returned, settled, tallyVars, link>>

\* The application is loaded: the provider parses the hash and fetches the event it
\* names, the URL effect runs (first with the initial state, then with the parsed
\* one), the page of the view is mounted.
Mount ==
    /\ ~mounted
    /\ mounted' = TRUE
    /\ LET parsed == ParseHash(location.hash)
       IN  IF parsed.match
           THEN /\ nOps < MaxOps
                /\ isLoading' = TRUE
                /\ error' = Null
                /\ LET fetches == EventPageFetch(parsed.eventId, parsed.view, fetchSeq + 2)
                   IN  /\ nOps + 1 + Len(fetches) <= MaxOps
                       /\ nOps' = nOps + 1 + Len(fetches)
                       /\ fetchSeq' = fetchSeq + 1 + Len(fetches)
                       /\ procs' = procs \o <<FetchStarted(parsed.eventId, fetchSeq + 1)>>
                                         \o fetches
                /\ currentEventId' = parsed.eventId
                /\ currentView' = parsed.view
                /\ location' = [location EXCEPT
                                   !.hash = UpdateUrl(<< >>, parsed.eventId, parsed.view)]
           ELSE /\ location' = [location EXCEPT !.hash = << >>]
                /\ UNCHANGED <<currentEventId, currentView, procs, nOps, fetchSeq,
                               isLoading, error>>
    /\ UNCHANGED <<events, db, lastFetched, newest, returned, settled, editingResponseId,
                   isSubmitting, isCreating, tallyVars, link>>

\* Header: goHome.
GoHome ==
    /\ mounted
    /\ NoMicrotask
    /\ Shows(Null, "home", procs, 0)
    /\ UNCHANGED <<mounted, editingResponseId>>

\* HomePage: the button that opens the create form.
HomePageCreate ==
    /\ mounted
    /\ NoMicrotask
    /\ currentView = "home"
    /\ Shows(currentEventId, "create", procs, 0)
    /\ UNCHANGED <<mounted, editingResponseId>>

\* CreateEventPage.handleSubmit up to its first await, the 300 ms timer: the title
\* is not blank, a date is selected, the button is enabled.
CreateEventPageSubmit ==
    /\ mounted
    /\ NoMicrotask
    /\ currentView = "create"
    /\ ~isCreating
    /\ nOps < MaxOps
    /\ nOps' = nOps + 1
    /\ isCreating' = TRUE
    /\ \E title \in Titles, memo \in Memos, dateCandidates \in NewCandidateLists,
          organizerEmail \in {Undefined} :
           procs' = Append(procs,
               [NewCall("handleSubmit", "timer", "", 0, "", "", << >>)
                   EXCEPT !.title = title, !.memo = memo,
                          !.organizerEmail = organizerEmail,
                          !.newCandidates = dateCandidates])
    /\ UNCHANGED <<events, isLoading, error, db, fetchSeq, lastFetched, newest, returned,
                   settled, location, mounted, currentEventId, currentView,
                   editingResponseId, isSubmitting, tallyVars, link>>

\* CreateEventPage.handleSubmit after the timer: createEvent is called and not
\* awaited, the promise it returns is made the current event identifier, the view
\* becomes 'event'.
CreateEventPageSubmitContinues ==
    \E k \in DOMAIN procs :
        /\ procs[k].pc = "timer"
        /\ NoMicrotask
        /\ Shows(Promise, "event",
                 [procs EXCEPT ![k] =
                     [NewCall("createEvent", "insertEvent", "", 0, "", "", << >>)
                         EXCEPT !.title = procs[k].title, !.memo = procs[k].memo,
                                !.organizerEmail = procs[k].organizerEmail,
                                !.newCandidates = procs[k].newCandidates]],
                 0)
        /\ UNCHANGED <<mounted, editingResponseId>>

\* EventPage.handleRespond: the page shows an event.
EventPageRespond ==
    /\ mounted
    /\ NoMicrotask
    /\ currentView = "event"
    /\ ShownEvent # NoEvent
    /\ editingResponseId' = NoResponseId
    /\ Shows(currentEventId, "respond", procs, 0)
    /\ UNCHANGED mounted

\* EventPage.handleEditResponse(responseId), for a participant the page shows.
EventPageEditResponse ==
    /\ mounted
    /\ NoMicrotask
    /\ currentView = "event"
    /\ ShownEvent # NoEvent
    /\ \E i \in DOMAIN ShownEvent.participants :
           editingResponseId' = ShownEvent.participants[i].id
    /\ Shows(currentEventId, "respond", procs, 0)
    /\ UNCHANGED mounted

\* EventPage: handleRefresh, or the tab becomes visible.
EventPageRefresh ==
    /\ mounted
    /\ NoMicrotask
    /\ currentView = "event"
    /\ Truthy(currentEventId)
    /\ nOps < MaxOps
    /\ nOps' = nOps + 1
    /\ fetchSeq' = fetchSeq + 1
    /\ isLoading' = TRUE
    /\ error' = Null
    /\ procs' = Append(procs, FetchStarted(currentEventId, fetchSeq + 1))
    /\ UNCHANGED <<events, db, lastFetched, newest, returned, settled, routeVars,
                   tallyVars, link>>

\* ResponsePage.handleSubmit up to its await: the page shows an event, the name is
\* not blank, the button is enabled.  updateParticipantResponse is called when an
\* editing response is found, addParticipantResponse otherwise.
ResponsePageSubmit ==
    /\ mounted
    /\ NoMicrotask
    /\ currentView = "respond"
    /\ ShownEvent # NoEvent
    /\ ~isSubmitting
    /\ nOps < MaxOps
    /\ nOps' = nOps + 1
    /\ isSubmitting' = TRUE
    /\ isLoading' = TRUE
    /\ error' = Null
    /\ IF EditingResponse # {}
       THEN \E i \in EditingResponse, name \in EditedNames, comment \in Comments,
               responses \in EditedResponses(ShownEvent) :
                procs' = Append(procs,
                    [NewCall("updateParticipantResponse", "updateResponse",
                             ShownEvent.id, 0, name, comment, responses)
                        EXCEPT !.responseId = ShownEvent.participants[i].id,
                               !.handler = "handleSubmit", !.page = TRUE])
       ELSE \E name \in Names, comment \in Comments,
               responses \in FormResponses(ShownEvent) :
                procs' = Append(procs,
                    [NewCall("addParticipantResponse", "insertResponse",
                             ShownEvent.id, 0, name, comment, responses)
                        EXCEPT !.handler = "handleSubmit", !.page = TRUE])
    /\ UNCHANGED <<events, db, fetchSeq, lastFetched, newest, returned, settled,
                   location, mounted, currentEventId, currentView, editingResponseId,
                   isCreating, tallyVars, link>>

\* ResponsePage.handleDelete up to its await: an editing response is found and the
\* participant confirms.
ResponsePageDelete ==
    /\ mounted
    /\ NoMicrotask
    /\ currentView = "respond"
    /\ ShownEvent # NoEvent
    /\ nOps < MaxOps
    /\ nOps' = nOps + 1
    /\ isLoading' = TRUE
    /\ error' = Null
    /\ \E i \in EditingResponse :
           procs' = Append(procs,
               [NewCall("deleteParticipantResponse", "deleteResponse",
                        ShownEvent.id, 0, "", "", << >>)
                   EXCEPT !.responseId = ShownEvent.participants[i].id,
                          !.handler = "handleDelete", !.page = TRUE])
    /\ UNCHANGED <<events, db, fetchSeq, lastFetched, newest, returned, settled,
                   routeVars, tallyVars, link>>

\* ResponsePage.handleBack.
ResponsePageBack ==
    /\ mounted
    /\ NoMicrotask
    /\ currentView = "respond"
    /\ ShownEvent # NoEvent
    /\ Shows(currentEventId, "event", procs, 0)
    /\ UNCHANGED <<mounted, editingResponseId>>

\* The rest of ResponsePage.handleSubmit or handleDelete once the operation it
\* awaited has settled: setCurrentView('event') when it resolved; when it rejected,
\* the catch block (handleSubmit enables the button again, if its page is still
\* there).
HandlerContinues ==
    \E k \in DOMAIN procs :
        /\ procs[k].pc = "settled"
        /\ IF procs[k].phase = "resolved"
           THEN Shows(currentEventId, "event", RemoveAt(procs, k), 0)
           ELSE /\ procs' = RemoveAt(procs, k)
                /\ isSubmitting' = IF procs[k].handler = "handleSubmit" /\ procs[k].page
                                   THEN FALSE ELSE isSubmitting
                /\ UNCHANGED <<events, isLoading, error, db, nOps, fetchSeq, lastFetched,
                               newest, returned, settled, location, currentEventId,
                               currentView, isCreating, tallyVars, link>>
        /\ UNCHANGED <<mounted, editingResponseId>>

\* The application before it is loaded at one of the addresses, the store holding
\* the response of Ann to e1.
RouteInit ==
    /\ events = << >>
    /\ isLoading = FALSE
    /\ error = Null
    /\ db = StoredDb
    /\ procs = << >>
    /\ nOps = 0
    /\ fetchSeq = 0
    /\ lastFetched = [id \in AllEventIds |-> [event |-> NoEvent, stamp |-> 0]]
    /\ newest = lastFetched
    /\ returned = [id |-> "", value |-> NullEvent, why |-> "none"]
    /\ settled = [fn |-> "none", outcome |-> "none"]
    /\ ProviderInit
    /\ isSubmitting = FALSE
    /\ isCreating = FALSE
    /\ location \in { [baseUrl |-> <<"https:", "/", "/", "schedule.example", "/">>,
                       hash |-> h] : h \in InitialHashes }
    /\ link = NoLink
    /\ event = NoEvent
    /\ summary = Summary(event)
    /\ bestDateIds = BestDateIds(event, summary)

RouteNext ==
    \/ Mount
    \/ GoHome
    \/ HomePageCreate
    \/ CreateEventPageSubmit
    \/ CreateEventPageSubmitContinues
    \/ EventPageRespond
    \/ EventPageEditResponse
    \/ EventPageRefresh
    \/ ResponsePageSubmit
    \/ ResponsePageDelete
    \/ ResponsePageBack
    \/ HandlerContinues
    \/ FetchEventRecvEvent
    \/ FetchEventRecvDateCandidates
    \/ FetchEventRecvResponses
    \/ CreateEventRecvEvent
    \/ CreateEventRecvDateCandidates
    \/ AddParticipantResponseRecvResponse
    \/ AddParticipantResponseRecvAvailability
    \/ NotificationRelayAnswers
    \/ SendEmailNotificationEnds
    \/ UpdateParticipantResponseRecvResponse
    \/ UpdateParticipantResponseRecvDelete
    \/ UpdateParticipantResponseRecvAvailability
    \/ DeleteParticipantResponseRecvResponse
    \/ StoreSelectEvent
    \/ StoreSelectDateCandidates
    \/ StoreSelectResponses
    \/ StoreInsertEvent
    \/ StoreInsertDateCandidates
    \/ StoreInsertResponse
    \/ StoreInsertAvailability
    \/ StoreUpdateResponse
    \/ StoreDeleteAvailability
    \/ StoreDeleteResponse
    \/ StoreFail

SpecRoute == RouteInit /\ [][RouteNext]_vars

\* The application was opened at '#/event/e1' and both fetches of the load have
\* completed: EventPage shows e1 with the response of Ann.  The tab has become
\* visible again, which started a fetch (the first operation counted).
EditInit ==
    /\ events = <<Assembled(StoredDb, "e1")>>
    /\ isLoading = TRUE
    /\ error = Null
    /\ db = StoredDb
    /\ procs = <<FetchStarted("e1", 3)>>
    /\ nOps = 1
    /\ fetchSeq = 3
    /\ lastFetched = [id \in AllEventIds |->
                         IF id = "e1" THEN [event |-> Assembled(StoredDb, "e1"), stamp |-> 2]
                         ELSE [event |-> NoEvent, stamp |-> 0]]
    /\ newest = lastFetched
    /\ returned = [id |-> "e1", value |-> Assembled(StoredDb, "e1"), why |-> "ok"]
    /\ settled = [fn |-> "none", outcome |-> "none"]
    /\ mounted = TRUE
    /\ currentEventId = "e1"
    /\ currentView = "event"
    /\ editingResponseId = NoResponseId
    /\ isSubmitting = FALSE
    /\ isCreating = FALSE
    /\ location = [baseUrl |-> <<"https:", "/", "/", "schedule.example", "/">>,
                   hash |-> HashEventPrefix \o <<"e1">>]
    /\ link = NoLink
    /\ event = NoEvent
    /\ summary = Summary(event)
    /\ bestDateIds = BestDateIds(event, summary)

EditNext ==
    \/ EventPageEditResponse
    \/ ResponsePageSubmit
    \/ ResponsePageDelete
    \/ ResponsePageBack
    \/ HandlerContinues
    \/ FetchEventRecvEvent
    \/ FetchEventRecvDateCandidates
    \/ FetchEventRecvResponses
    \/ AddParticipantResponseRecvResponse
    \/ AddParticipantResponseRecvAvailability
    \/ NotificationRelayAnswers
    \/ SendEmailNotificationEnds
    \/ UpdateParticipantResponseRecvResponse
    \/ UpdateParticipantResponseRecvDelete
    \/ UpdateParticipantResponseRecvAvailability
    \/ DeleteParticipantResponseRecvResponse
    \/ StoreSelectEvent
    \/ StoreSelectDateCandidates
    \/ StoreSelectResponses
    \/ StoreInsertResponse
    \/ StoreInsertAvailability
    \/ StoreUpdateResponse
    \/ StoreDeleteAvailability
    \/ StoreDeleteResponse
    \/ StoreFail

SpecEdit == EditInit /\ [][EditNext]_vars

(***************************************************************************)
(* Claims about the mutating operations.                                   *)
(***************************************************************************)

Mutations ==
    {"createEvent", "addParticipantResponse", "updateParticipantResponse",
     "deleteParticipantResponse"}

WriteCalls ==
    {"insertEvent", "insertDateCandidates", "insertResponse", "insertAvailability",
     "updateResponse", "deleteAvailability", "deleteResponse"}

\* Call k awaited a store write, which failed.
WriteFailed(k) ==
    /\ procs[k].pc \in WriteCalls
    /\ procs[k].phase = "replied"
    /\ procs[k].reply.status = "error"

\* This step ends call k.
Ends(k) == Len(procs') < Len(procs) /\ procs' = Others(k)

\* C12 as stated: when a mutating operation fails at one of its store writes, the
\* cache is exactly what it was before the operation started, the error slot is set
\* and the failure is reported to the caller.
C12_CacheAsBeforeTheCall ==
    [][\A k \in DOMAIN procs :
          (WriteFailed(k) /\ Ends(k)) =>
              /\ events' = procs[k].cacheAtCall
              /\ error' # Null
              /\ settled' = [fn |-> procs[k].fn, outcome |-> "rejected"]]_vars

\* C12, amended: a mutating operation that fails at one of its store writes has not
\* changed the cache (while it is at its writes the cache changes only in a step
\* that completes the fetch of another call), the error slot is set with the failure
\* and the failure is reported to the caller.
C12_FailedWriteLeavesCache ==
    [][\A k \in DOMAIN procs :
          /\ (WriteFailed(k) /\ Ends(k)) =>
                /\ events' = events
                /\ error' \in {"store failure", "Failed to create event",
                                "Failed to add response", "Failed to update response",
                                "Failed to delete response"}
                /\ settled' = [fn |-> procs[k].fn, outcome |-> "rejected"]
          /\ (procs[k].fn \in Mutations /\ procs[k].pc \in WriteCalls /\ events' # events) =>
                \E j \in DOMAIN procs \ {k} :
                    /\ Replied(j, "selectResponses")
                    /\ FetchCompletes(procs[j].id)
                    /\ Ends(j) \/ (Len(procs') = Len(procs) /\ procs'[k] = procs[k])]_vars

\* The update of response 1 failed at the insert of its new availability rows: the
\* error slot holds the failure and the cache is the one the page loaded.
C12_Witness ==
    /\ settled = [fn |-> "updateParticipantResponse", outcome |-> "rejected"]
    /\ error = "Failed to update response"
    /\ events = <<Assembled(StoredDb, "e1")>>
    /\ \E r \in db.participant_responses : r.id = 1 /\ r.name = "Ann B."
    /\ procs = << >>

\* C13: no mutating operation rolls back.  The step in which an operation fails at a
\* store write leaves the store as it is and ends the operation without another
\* store call, and the store changes only by serving a write of an operation still
\* in progress: what the failed operation wrote before stays as last written.
C13_NoRollback ==
    [][/\ \A k \in DOMAIN procs :
             WriteFailed(k) =>
                 /\ Len(procs') >= Len(procs) => procs'[k] = procs[k]
                 /\ Ends(k) => db' = db
       /\ db' # db =>
             /\ Len(procs') = Len(procs)
             /\ \E k \in DOMAIN procs :
                   /\ procs[k].pc \in WriteCalls
                   /\ procs[k].phase = "sent"
                   /\ procs'[k] = [procs[k] EXCEPT !.phase = "replied",
                                                   !.reply = procs'[k].reply]
                   /\ procs'[k].reply.status = "ok"]_vars

\* The three cases at once would need three failures; this is the last one: the name
\* of response 1 is updated and its old availability rows are deleted, the insert of
\* the new rows failed, and nothing is in progress that would repair it.
C13_Witness ==
    /\ settled = [fn |-> "updateParticipantResponse", outcome |-> "rejected"]
    /\ procs = << >>
    /\ \E r \in db.participant_responses : r.id = 1 /\ r.name = "Ann B."
    /\ {a \in db.response_availability : a.response_id = 1} = {}
    /\ nOps = 2

\* The date candidate rows of event id in store d.
CandidatesOf(d, id) == {r \in d.date_candidates : r.event_id = id}

\* C19: no operation changes the stored title, memo, organizer contact or date
\* candidates of an event once it is created (the candidates are inserted by the
\* createEvent that inserted the header, once); only the responses change, and every
\* cached event has the header and the candidates of the store.
C19_EventImmutable ==
    /\ [][\A id \in DOMAIN db.events :
            /\ id \in DOMAIN db'.events
            /\ db'.events[id] = db.events[id]
            /\ CandidatesOf(db', id) # CandidatesOf(db, id) =>
                  /\ CandidatesOf(db, id) = {}
                  /\ \E k \in DOMAIN procs :
                        /\ Sent(k, "insertDateCandidates")
                        /\ procs[k].fn = "createEvent"
                        /\ procs[k].dbEvent.id = id]_vars
    /\ [](\A i \in DOMAIN events :
            /\ events[i].id \in DOMAIN db.events
            /\ events[i].title = db.events[events[i].id].title
            /\ events[i].memo = db.events[events[i].id].memo
            /\ events[i].organizerEmail =
                  OrElse(db.events[events[i].id].organizer_email, Undefined)
            /\ events[i].dateCandidates =
                  Assembled(db, events[i].id).dateCandidates)

\* Response 1 of e1 was deleted and another response was added: the header and the
\* candidates of e1 are those the store started with.
C19_Witness ==
    /\ procs = << >>
    /\ db.events["e1"] = InitDb.events["e1"]
    /\ CandidatesOf(db, "e1") = CandidatesOf(InitDb, "e1")
    /\ {r.id : r \in db.participant_responses} = {2}
    /\ Len(events) = 1
    /\ Len(events[1].participants) = 1
    /\ events[1].participants[1].id = 2

\* C20: once the last store write of updateParticipantResponse(event, r, name,
\* comment, responses) has succeeded, the stored response r has the new name and
\* comment, and its availability records are exactly the entries of the new map that
\* are not null: no record from before the update remains.
C20_UpdateReplaces ==
    [][\A k \in DOMAIN procs :
          (/\ procs[k].fn = "updateParticipantResponse"
           /\ Sent(k, "insertAvailability")
           /\ Len(procs') = Len(procs)
           /\ procs'[k].phase = "replied"
           /\ procs'[k].reply.status = "ok") =>
              /\ \E r \in db'.participant_responses :
                    /\ r.id = procs[k].responseId
                    /\ r.name = procs[k].name
                    /\ r.comment = procs[k].comment
              /\ {a \in db'.response_availability : a.response_id = procs[k].responseId}
                    = AvailabilityRecords(procs[k].responseId, procs[k].responses)]_vars

(***************************************************************************)
(* Claims about the pages and the address.                                 *)
(***************************************************************************)

\* C18: in every state of the loaded application the hash encodes the current event
\* identifier and the view: the hash parse of the mount effect, run on the current
\* address, gives the current view and the current event identifier (the initial
\* ones, 'home' and null, when it sets nothing).
C18_ReloadReproduces ==
    (mounted /\ NoMicrotask) =>
        LET parsed == ParseHash(location.hash)
        IN  /\ currentView = (IF parsed.match THEN parsed.view ELSE "home")
            /\ currentEventId = (IF parsed.match THEN parsed.eventId ELSE Null)

(***************************************************************************)
(* Claims about what the operations leave in the store and in the cache.   *)
(***************************************************************************)

\* The identifiers of the participants of an assembled event.
ParticipantIds(ev) == {ev.participants[i].id : i \in DOMAIN ev.participants}

\* This step is the successful completion of the fetch of call k.
Completes(k) ==
    /\ Replied(k, "selectResponses")
    /\ procs[k].reply.status = "ok"
    /\ lastFetched'[procs[k].id] # lastFetched[procs[k].id]
    /\ lastFetched'[procs[k].id].stamp = procs[k].stamp

\* C21: when deleteParticipantResponse(event, r) resolves, the store holds neither the
\* response r nor an availability record of r (no availability record is without
\* its response, and a response that is gone stays gone), and the event assembled by
\* a fetch that started when r was gone has no participant r, so that its tally,
\* which counts the values of the participants, counts none of r.
C21_DeletedStaysDeleted ==
    /\ [](\A a \in db.response_availability :
            \E r \in db.participant_responses : r.id = a.response_id)
    /\ [][/\ Gone(db) \subseteq Gone(db')
          /\ \A k \in DOMAIN procs :
                /\ (/\ procs[k].fn = "deleteParticipantResponse"
                    /\ Ends(k)
                    /\ settled' = [fn |-> "deleteParticipantResponse",
                                   outcome |-> "resolved"]) =>
                        procs[k].responseId \in Gone(db')
                /\ Completes(k) =>
                      /\ ParticipantIds(lastFetched'[procs[k].id].event)
                            \cap procs[k].goneAtFetch = {}
                      /\ ParticipantIds(Find(events', procs[k].id))
                            \cap procs[k].goneAtFetch = {}]_vars

\* Response 1 of e1 was deleted; a fetch of e1 called after that has completed and
\* the cached event has no participant.
C21_Witness ==
    /\ procs = << >>
    /\ settled = [fn |-> "deleteParticipantResponse", outcome |-> "resolved"]
    /\ 1 \in Gone(db)
    /\ lastFetched["e1"].stamp = 3
    /\ returned.why = "ok"
    /\ Len(events) = 1
    /\ events[1].participants = << >>

\* The participant of assembled event ev with identifier r, as a set.
ParticipantsWith(ev, r) ==
    {ev.participants[i] : i \in {j \in DOMAIN ev.participants : ev.participants[j].id = r}}

\* C22: no opinion is kept apart from unavailable.  When the refresh fetch of
\* addParticipantResponse(event, name, comment, m) completes, the assembled event has
\* one participant for the inserted response, whose map has exactly the candidates c
\* with m[c] not null, each with the value m[c]: a candidate submitted as null is
\* absent, one submitted as 'unavailable' is present as 'unavailable'.  No stored
\* record and no cached map holds null.
C22_NullIsNotUnavailable ==
    /\ [](/\ \A a \in db.response_availability : a.availability # Null
          /\ \A i \in DOMAIN events : \A j \in DOMAIN events[i].participants :
                \A c \in DOMAIN events[i].participants[j].responses :
                    events[i].participants[j].responses[c] # Null)
    /\ [][\A k \in DOMAIN procs :
            (procs[k].fn = "addParticipantResponse" /\ Completes(k)) =>
                LET m == procs[k].responses
                    found == ParticipantsWith(Find(events', procs[k].id), procs[k].responseId)
                IN  /\ Cardinality(found) = 1
                    /\ \A p \in found :
                          /\ DOMAIN p.responses = {c \in DOMAIN m : m[c] # Null}
                          /\ \A c \in DOMAIN m :
                                /\ m[c] = Null => c \notin DOMAIN p.responses
                                /\ m[c] = "unavailable" =>
                                      c \in DOMAIN p.responses /\ p.responses[c] = "unavailable"
                                /\ m[c] # Null => p.responses[c] = m[c]]_vars

\* A response to e1 submitted with d1 unavailable and d2 null is in the cache with
\* d1 unavailable and without d2.
C22_Witness ==
    /\ procs = << >>
    /\ settled = [fn |-> "addParticipantResponse", outcome |-> "resolved"]
    /\ \E i \in DOMAIN events :
          /\ events[i].id = "e1"
          /\ \E j \in DOMAIN events[i].participants :
                /\ DOMAIN events[i].participants[j].responses = {"d1"}
                /\ events[i].participants[j].responses["d1"] = "unavailable"

(***************************************************************************)
(* Claims about the refreshes and the pages.                               *)
(***************************************************************************)

\* Call p of a mutating operation awaits the last store write of the operation.
AwaitsLastWrite(p) ==
    LET noRecords == \A c \in DOMAIN p.responses : p.responses[c] = Null
    IN  \/ p.fn = "createEvent" /\ p.pc = "insertDateCandidates"
        \/ p.fn = "createEvent" /\ p.pc = "insertEvent" /\ p.newCandidates = << >>
        \/ p.fn = "addParticipantResponse" /\ p.pc = "insertAvailability"
        \/ p.fn = "addParticipantResponse" /\ p.pc = "insertResponse" /\ noRecords
        \/ p.fn = "updateParticipantResponse" /\ p.pc = "insertAvailability"
        \/ p.fn = "updateParticipantResponse" /\ p.pc = "deleteAvailability" /\ noRecords
        \/ p.fn = "deleteParticipantResponse" /\ p.pc = "deleteResponse"

\* p is a fetch of id that has just been started as the newest one.
StartedFetch(p, id) ==
    /\ p.pc = "selectEvent"
    /\ p.phase = "sent"
    /\ p.id = id
    /\ p.stamp = fetchSeq'
    /\ fetchSeq' > fetchSeq

\* C23: each refresh trigger starts its own fetch.  The event page mounted with a
\* current event (the view becomes 'event' or the current event changes under it),
\* a refresh of the mounted event page (the tab is visible again, the refresh
\* button), and the last successful store write of a mutating operation each start a
\* fetch with a stamp of its own, whatever fetches are outstanding, which stay
\* outstanding; and the successful completion of a fetch of X makes the entry of X
\* the event it assembled in that one step, the other entries staying as they are.
C23_EachTriggerFetches ==
    [][/\ (/\ mounted' /\ currentView' = "event" /\ Truthy(currentEventId')
           /\ (~mounted \/ currentView # "event" \/ currentEventId' # currentEventId)) =>
              /\ procs' # << >>
              /\ procs'[Len(procs')].fn = "fetchEvent"
              /\ StartedFetch(procs'[Len(procs')], currentEventId')
              /\ \A k \in DOMAIN procs :
                    (procs[k].fn = "fetchEvent" /\ procs[k].pc # "settled") =>
                        \E j \in 1..(Len(procs') - 1) : procs'[j] = procs[k]
       /\ EventPageRefresh =>
              /\ Len(procs') = Len(procs) + 1
              /\ procs'[Len(procs')].fn = "fetchEvent"
              /\ StartedFetch(procs'[Len(procs')], currentEventId)
              /\ \A k \in DOMAIN procs : procs'[k] = procs[k]
       /\ \A k \in DOMAIN procs :
              /\ (/\ procs[k].fn \in Mutations
                  /\ AwaitsLastWrite(procs[k])
                  /\ procs[k].phase = "replied"
                  /\ procs[k].reply.status = "ok"
                  /\ Len(procs') = Len(procs)
                  /\ procs'[k].phase # procs[k].phase) =>
                     /\ procs'[k].fn = procs[k].fn
                     /\ StartedFetch(procs'[k], IF procs[k].fn = "createEvent"
                                                THEN procs'[k].dbEvent.id ELSE procs[k].id)
                     /\ \A j \in DOMAIN procs : j # k => procs'[j] = procs[j]
              /\ Completes(k) =>
                     /\ Find(events', procs[k].id) = lastFetched'[procs[k].id].event
                     /\ lastFetched'[procs[k].id].event.id = procs[k].id
                     /\ Cardinality(EntriesOf(events', procs[k].id)) = 1
                     /\ \A id \in AllEventIds \ {procs[k].id} :
                           Find(events', id) = Find(events, id)]_vars

\* The event page of e1 was refreshed while the fetch of its mount effect was
\* outstanding: both fetches are outstanding, the cache has what the fetch of the
\* provider assembled.
C23_Witness ==
    /\ mounted
    /\ currentView = "event"
    /\ currentEventId = "e1"
    /\ Len(procs) = 2
    /\ \A k \in DOMAIN procs : procs[k].fn = "fetchEvent" /\ procs[k].id = "e1"
    /\ procs[1].stamp = 2
    /\ procs[2].stamp = 3
    /\ lastFetched["e1"].stamp = 1
    /\ Find(events, "e1") = lastFetched["e1"].event

\* C24: the cache changes only in the completion step of a successful fetchEvent.
\* A step that changes the cache is the step of a fetch (alone or inside a mutating
\* operation) that was answered the responses without error, and it changes no more
\* than the entry of the event fetched; so a step that starts a fetch or a mutating
\* operation, that ends a fetch in failure or not-found, in which the store writes,
\* that changes the view, the current event or the editing response, or that belongs
\* to the notification leaves the cache as it is.
C24_OnlyFetchCompletionWrites ==
    [][/\ events' # events =>
              \E k \in DOMAIN procs :
                  /\ Replied(k, "selectResponses")
                  /\ procs[k].reply.status = "ok"
                  /\ \A id \in AllEventIds \ {procs[k].id} : Find(events', id) = Find(events, id)
                  /\ db' = db
                  /\ nOps' = nOps
                  /\ fetchSeq' = fetchSeq
                  /\ routeVars' = routeVars
       /\ (\/ db' # db
           \/ nOps' # nOps
           \/ fetchSeq' # fetchSeq
           \/ routeVars' # routeVars
           \/ returned' # returned /\ returned'.why # "ok"
           \/ settled' # settled /\ settled'.outcome = "rejected"
           \/ \E k \in DOMAIN procs :
                 /\ procs[k].pc \in {"sendEmailNotification", "settled"}
                 /\ Ends(k) \/ (Len(procs') = Len(procs) /\ procs'[k] # procs[k])) =>
              events' = events]_vars

\* The response form of e1 is open to edit the response of Ann, the store has
\* answered the first writes of the update, the cache is the event as loaded.
C24_Witness ==
    /\ currentView = "respond"
    /\ editingResponseId = 1
    /\ events = <<Assembled(StoredDb, "e1")>>
    /\ db # StoredDb
    /\ \E k \in DOMAIN procs :
          /\ procs[k].fn = "updateParticipantResponse"
          /\ Replied(k, "deleteAvailability")
          /\ procs[k].reply.status = "ok"

\* The event assembled contains what mutating call p wrote: the header and the
\* candidates of createEvent in the order given, the response of an add or an update
\* with its name, comment and non-null entries; the response of a delete is not in it.
ContainsTheWrites(ev, p) ==
    LET found == ParticipantsWith(ev, p.responseId)
        written == \A q \in found :
                       /\ q.name = p.name
                       /\ q.comment = p.comment
                       /\ DOMAIN q.responses = {c \in DOMAIN p.responses : p.responses[c] # Null}
                       /\ \A c \in DOMAIN q.responses : q.responses[c] = p.responses[c]
    IN  CASE p.fn = "createEvent" ->
                /\ ev.id = p.dbEvent.id
                /\ ev.title = p.title
                /\ ev.memo = p.memo
                /\ Len(ev.dateCandidates) = Len(p.newCandidates)
                /\ \A i \in DOMAIN p.newCandidates :
                      ev.dateCandidates[i].datetime = p.newCandidates[i].datetime
          [] p.fn = "deleteParticipantResponse" -> found = {}
          [] OTHER -> found # {} /\ written

\* C25 as stated: within a mutating operation the refresh fetch starts only after
\* every store write of the operation was answered without error, the event that
\* fetch assembles contains the writes of the operation (for createEvent the rows of
\* the candidates have the list index as sort position), and an operation of which a
\* write failed ends without starting a fetch.
C25_RefreshContainsTheWrites ==
    [][\A k \in DOMAIN procs :
          procs[k].fn \in Mutations =>
              /\ (/\ Len(procs') = Len(procs)
                  /\ procs[k].pc # "selectEvent"
                  /\ procs'[k].pc = "selectEvent") =>
                     /\ AwaitsLastWrite(procs[k])
                     /\ procs[k].phase = "replied"
                     /\ procs[k].reply.status = "ok"
              /\ (/\ WriteFailed(k)
                  /\ Ends(k) \/ (Len(procs') = Len(procs) /\ procs'[k] # procs[k])) =>
                     /\ Ends(k)
                     /\ fetchSeq' = fetchSeq
                     /\ settled' = [fn |-> procs[k].fn, outcome |-> "rejected"]
              /\ Completes(k) =>
                     /\ ContainsTheWrites(lastFetched'[procs[k].id].event, procs[k])
                     /\ procs[k].fn = "createEvent" =>
                           \A i \in DOMAIN procs[k].newCandidates :
                               \E r \in CandidatesOf(db, procs[k].id) :
                                   /\ r.sort_order = i - 1
                                   /\ r.datetime = procs[k].newCandidates[i].datetime]_vars

\* C26 as stated: the loading flag is true in every state in which a fetch or a
\* mutating operation is outstanding, and false in every state in which none is.
C26_LoadingWhileOutstanding ==
    /\ (\E k \in DOMAIN procs : procs[k].fn \in Mutations \cup {"fetchEvent"}) => isLoading
    /\ procs = << >> => ~isLoading

\* C27 as stated: the view is 'event' or 'respond' only if the current event
\* identifier is set, that is neither null nor empty.
C27_EventViewsHaveAnEvent ==
    currentView \in {"event", "respond"} => Truthy(currentEventId)

\* C28 as stated: the step of the create form's handleSubmit that sets the view
\* 'event' comes after its createEvent has completed: no createEvent is in progress
\* for it and the current event identifier is the identifier the store gave the new
\* event; and when createEvent rejects, the view is not the event view of that call.
C28_EventViewAfterCreate ==
    [][\A k \in DOMAIN procs :
          /\ (/\ procs[k].fn = "handleSubmit"
              /\ procs[k].pc = "timer"
              /\ Len(procs') >= Len(procs)
              /\ procs'[k] # procs[k]
              /\ currentView' = "event") =>
                 /\ procs'[k].fn # "createEvent"
                 /\ currentEventId' \in DOMAIN db'.events \ DOMAIN StoredDb.events
          /\ (/\ procs[k].fn = "createEvent"
              /\ WriteFailed(k)
              /\ Ends(k)) =>
                 ~(currentView' = "event" /\ currentEventId' = Promise)]_vars

\* C29 as stated: at the step in which a mutating operation resolves, the cache
\* entry of its event reflects the mutation: the event createEvent inserted is
\* cached, the response added or updated is in the entry with the values given, the
\* response deleted is not in it.
C29_ResolvedMeansCached ==
    [][\A k \in DOMAIN procs :
          (/\ procs[k].fn \in Mutations
           /\ Ends(k)
           /\ settled' = [fn |-> procs[k].fn, outcome |-> "resolved"]) =>
              /\ Find(events', procs[k].id) # NoEvent
              /\ ContainsTheWrites(Find(events', procs[k].id), procs[k])]_vars

\* C30 as stated: a submit of the response form that was opened to edit response r
\* calls updateParticipantResponse for r with the values entered, and not
\* addParticipantResponse, whatever fetches have completed since the form was opened.
C30_EditSubmitsUpdate ==
    [][(/\ currentView = "respond"
        /\ editingResponseId # NoResponseId
        /\ Len(procs') = Len(procs) + 1
        /\ procs'[Len(procs')].handler = "handleSubmit") =>
           /\ procs'[Len(procs')].fn = "updateParticipantResponse"
           /\ procs'[Len(procs')].responseId = editingResponseId
           /\ procs'[Len(procs')].id = currentEventId]_vars

====
